---- MODULE Spec2Model ----
(***************************************************************************)
(* State-machine model of the user-management core: the User entity, the   *)
(* Create / Update / Delete use cases and the in-memory repository         *)
(* (UserMockRepository) they run against, the Get and List use cases, the  *)
(* HTTP-backed UserRepository and the DomainErrorFactory.                  *)
(*                                                                         *)
(* Strings are sequences of one-character strings, so that trim() and the  *)
(* regular expressions of the source are computed character by character.  *)
(* A JavaScript object literal is a function whose DOMAIN is its set of    *)
(* keys: an omitted (undefined) field is a key that is not in the DOMAIN.  *)
(* Dates are integers (days since the epoch for the seed data).            *)
(***************************************************************************)
EXTENDS Integers, Sequences, FiniteSets, TLC

\* ------------------------------------------------------------------ bounds
\* Number of use-case executions that can be in flight at the same time.
NumProcs == 2
\* Number of users the in-memory repository may create beyond its seed data.
MaxCreates == 1
\* Longest e-mail / name drawn as input of the validation specification.
MaxEmailLen == 5
MaxNameLen == 3
\* How far below and above the limits of a range the numbers given to the
\* List use case go.
MaxDelta == 1
\* Longest search string given to the List use case.
MaxQueryLen == 3
\* Milliseconds the clock advances while entities are constructed and copied.
MaxTicks == 2

Procs == 1..NumProcs

\* ---------------------------------------------------------------- strings
LowerLetters ==
  {"a","b","c","d","e","f","g","h","i","j","k","l","m",
   "n","o","p","q","r","s","t","u","v","w","x","y","z"}
UpperLetters ==
  {"A","B","C","D","E","F","G","H","I","J","K","L","M",
   "N","O","P","Q","R","S","T","U","V","W","X","Y","Z"}
\* [a-zA-Z]
Letters == LowerLetters \cup UpperLetters
\* \s : the white-space class of a JavaScript regular expression and of
\* String.prototype.trim (space, tab, line feed, carriage return).
WhiteSpace == {" ", "\t", "\n", "\r"}

RECURSIVE TrimStart(_)
TrimStart(s) ==
  IF s = <<>> THEN <<>>
  ELSE IF Head(s) \in WhiteSpace THEN TrimStart(Tail(s)) ELSE s

RECURSIVE TrimEnd(_)
TrimEnd(s) ==
  IF s = <<>> THEN <<>>
  ELSE IF s[Len(s)] \in WhiteSpace THEN TrimEnd(SubSeq(s, 1, Len(s) - 1)) ELSE s

\* String.prototype.trim
Trim(s) == TrimEnd(TrimStart(s))

\* s matches [^\s@]+
NoWsAt(s) ==
  /\ Len(s) >= 1
  /\ \A i \in 1..Len(s) : s[i] \notin WhiteSpace /\ s[i] # "@"

\* /^[^\s@]+@[^\s@]+\.[^\s@]+$/.test(s)
EmailRegexTest(s) ==
  \E i \in 1..Len(s) : \E j \in 1..Len(s) :
     /\ i < j
     /\ s[i] = "@"
     /\ s[j] = "."
     /\ NoWsAt(SubSeq(s, 1, i - 1))
     /\ NoWsAt(SubSeq(s, i + 1, j - 1))
     /\ NoWsAt(SubSeq(s, j + 1, Len(s)))

\* /^[a-zA-Z\s]+$/.test(s)
NameRegexTest(s) ==
  /\ Len(s) >= 1
  /\ \A i \in 1..Len(s) : s[i] \in Letters \cup WhiteSpace

\* obj.key of a JavaScript object: present and not undefined
Has(obj, key) == key \in DOMAIN obj

\* !obj.key for a string field: undefined or the empty string
Falsy(obj, key) == ~Has(obj, key) \/ obj[key] = <<>>

\* Number.prototype.toString for a non-negative integer
Digit(d) == CASE d = 0 -> "0" [] d = 1 -> "1" [] d = 2 -> "2" [] d = 3 -> "3"
              [] d = 4 -> "4" [] d = 5 -> "5" [] d = 6 -> "6" [] d = 7 -> "7"
              [] d = 8 -> "8" [] d = 9 -> "9"
RECURSIVE toString(_)
toString(n) ==
  IF n < 10 THEN <<Digit(n)>> ELSE Append(toString(n \div 10), Digit(n % 10))

\* new Error(message)
Error(message) == [name |-> "Error", message |-> message]

\* ------------------------------------------------------------- User entity
\* validateEmail: the error the constructor throws, or "" when it passes
validateEmail(email) ==
  IF ~EmailRegexTest(email) THEN "Invalid email format" ELSE ""

\* validateName: the error the constructor throws, or "" when it passes
validateName(name, fieldName) ==
  IF name = <<>> \/ Len(Trim(name)) < 2
  THEN fieldName \o " must be at least 2 characters long" ELSE ""

\* the message of the Error thrown by new User(...), "" when construction succeeds
UserCtorError(email, firstName, lastName) ==
  IF validateEmail(email) # "" THEN validateEmail(email)
  ELSE IF validateName(firstName, "First name") # ""
       THEN validateName(firstName, "First name")
  ELSE validateName(lastName, "Last name")

\* the fields of a constructed User
User(id, email, firstName, lastName, createdAt, updatedAt, isActive) ==
  [id |-> id, email |-> email, firstName |-> firstName, lastName |-> lastName,
   createdAt |-> createdAt, updatedAt |-> updatedAt, isActive |-> isActive]

updateInfo(u, firstName, lastName, date) ==
  User(u.id, u.email, firstName, lastName, u.createdAt, date, u.isActive)

deactivate(u, date) ==
  User(u.id, u.email, u.firstName, u.lastName, u.createdAt, date, FALSE)

\* the absent result (null) of getById
Null == [null |-> TRUE]

\* ------------------------------------------------------------------- state
VARIABLES
  users,     \* UserMockRepository.users : the array of stored User entities
  nextId,    \* UserMockRepository.nextId
  now,       \* the wall clock (new Date() reads it)
  pc,        \* per execution: idle, awaitCheck, awaitMut, done, failed, thrown
  uc,        \* per execution: the use case entry point that was called
  arg,       \* per execution: the arguments of the call
  pending,   \* per execution: the notification the awaited repository
             \* observable will deliver (computed when the call was made)
  fetched,   \* per execution: the notification its switchMap callback received
  outcome,   \* per execution: what the caller got (value, error, or throw)
  calls,     \* per execution: the repository calls it has made, in order
  loadingMap,         \* LoadingService.loadingMap : key -> true
  loadingSubject,     \* LoadingService.loadingSubject : the value last emitted
  activeRequests,     \* LoadingInterceptor.activeRequests
  requests,           \* the HTTP requests in flight, in the order they started
  notifications,      \* NotificationService.notifications$ : the current list
  notificationNextId, \* NotificationService.nextId
  timers              \* the setTimeout callbacks of addNotification not yet run

\* the state of the shared services and of the HTTP interceptors
services ==
  <<loadingMap, loadingSubject, activeRequests, requests, notifications,
    notificationNextId, timers>>

vars ==
  <<users, nextId, now, pc, uc, arg, pending, fetched, outcome, calls, services>>

\* the shared services as their field initialisers leave them
InitServices ==
  /\ loadingMap = <<>>
  /\ loadingSubject = FALSE
  /\ activeRequests = 0
  /\ requests = <<>>
  /\ notifications = <<>>
  /\ notificationNextId = 1
  /\ timers = {}

\* new Date()
Today == now

Next_(v) == [kind |-> "next", value |-> v]
Fail_(message) == [kind |-> "error", value |-> Error(message)]
Call(op, args) == [op |-> op, args |-> args]
NoPending == [kind |-> "none", value |-> Null]

\* -------------------------------------------------- UserMockRepository
\* private nextId = 6
FirstNextId == 6

\* this.users.findIndex((u) => u.id === id), 1-based; 0 when there is none
findIndexById(us, id) ==
  IF \E i \in 1..Len(us) : us[i].id = id
  THEN CHOOSE i \in 1..Len(us) :
         /\ us[i].id = id
         /\ \A j \in 1..(i - 1) : us[j].id # id
  ELSE 0

\* getById: the value the returned observable will emit
getById(us, id) ==
  IF findIndexById(us, id) = 0 THEN Null ELSE us[findIndexById(us, id)]

\* existsByEmail: the value the returned observable will emit
existsByEmail(us, email) == \E i \in 1..Len(us) : us[i].email = email

\* a create that trusts the caller's existence check
RepoCreateNoCheck(us, nid, userData, date) ==
  LET newUser == User(toString(nid), userData.email, userData.firstName,
                      userData.lastName, date, date, TRUE)
  IN [users |-> Append(us, newUser), nextId |-> nid + 1, resp |-> Next_(newUser)]

\* a create that numbers the new user by its place in the array
RepoCreateByPlace(us, nid, userData, date) ==
  IF \E i \in 1..Len(us) : us[i].email = userData.email
  THEN [users |-> us, nextId |-> nid,
        resp |-> Fail_("User with this email already exists")]
  ELSE IF UserCtorError(userData.email, userData.firstName, userData.lastName) # ""
  THEN [users |-> us, nextId |-> nid,
        resp |-> Fail_(UserCtorError(userData.email, userData.firstName,
                                     userData.lastName))]
  ELSE LET newUser == User(toString(Len(us) + 1), userData.email,
                           userData.firstName, userData.lastName, date, date, TRUE)
       IN [users |-> Append(us, newUser), nextId |-> nid + 1,
           resp |-> Next_(newUser)]

\* create: the array and counter it leaves and the notification it returns
RepoCreate(us, nid, userData, date) ==
  IF \E i \in 1..Len(us) : us[i].email = userData.email
  THEN [users |-> us, nextId |-> nid,
        resp |-> Fail_("User with this email already exists")]
  ELSE IF UserCtorError(userData.email, userData.firstName, userData.lastName) # ""
  THEN [users |-> us, nextId |-> nid,
        resp |-> Fail_(UserCtorError(userData.email, userData.firstName,
                                     userData.lastName))]
  ELSE LET newUser == User(toString(nid), userData.email, userData.firstName,
                           userData.lastName, date, date, TRUE)
       IN [users |-> Append(us, newUser), nextId |-> nid + 1,
           resp |-> Next_(newUser)]

\* userData.firstName || existingUser.firstName
OrElse(userData, key, existing) ==
  IF Falsy(userData, key) THEN existing ELSE userData[key]

\* an update that fills a name left out of the payload with the other name
RepoUpdateFills(us, id, userData, date) ==
  LET userIndex == findIndexById(us, id) IN
  IF userIndex = 0
  THEN [users |-> us, resp |-> Fail_("User not found")]
  ELSE LET existingUser == us[userIndex]
           fn == OrElse(userData, "firstName", existingUser.lastName)
           ln == OrElse(userData, "lastName", fn)
           updatedUser == updateInfo(existingUser, fn, ln, date)
       IN [users |-> [us EXCEPT ![userIndex] = updatedUser],
           resp |-> Next_(updatedUser)]

\* update
RepoUpdate(us, id, userData, date) ==
  LET userIndex == findIndexById(us, id) IN
  IF userIndex = 0
  THEN [users |-> us, resp |-> Fail_("User not found")]
  ELSE LET existingUser == us[userIndex]
           fn == OrElse(userData, "firstName", existingUser.firstName)
           ln == OrElse(userData, "lastName", existingUser.lastName)
           updatedUser == updateInfo(existingUser, fn, ln, date)
       IN IF UserCtorError(existingUser.email, fn, ln) # ""
          THEN [users |-> us,
                resp |-> Fail_(UserCtorError(existingUser.email, fn, ln))]
          ELSE [users |-> [us EXCEPT ![userIndex] = updatedUser],
                resp |-> Next_(updatedUser)]

\* this.users.splice(userIndex, 1)
Splice1(us, userIndex) ==
  SubSeq(us, 1, userIndex - 1) \o SubSeq(us, userIndex + 1, Len(us))

\* a delete that removes the record instead of deactivating it
RepoDeleteRemoves(us, id, date) ==
  LET userIndex == findIndexById(us, id) IN
  IF userIndex = 0
  THEN [users |-> us, resp |-> Fail_("User not found")]
  ELSE [users |-> Splice1(us, userIndex), resp |-> Next_(TRUE)]

\* delete (soft delete)
RepoDelete(us, id, date) ==
  LET userIndex == findIndexById(us, id) IN
  IF userIndex = 0
  THEN [users |-> us, resp |-> Fail_("User not found")]
  ELSE IF ~us[userIndex].isActive
  THEN [users |-> us, resp |-> Fail_("User is already inactive")]
  ELSE [users |-> [us EXCEPT ![userIndex] = deactivate(us[userIndex], date)],
        resp |-> Next_(TRUE)]

\* permanentDelete (hard delete)
RepoPermanentDelete(us, id) ==
  LET userIndex == findIndexById(us, id) IN
  IF userIndex = 0
  THEN [users |-> us, resp |-> Fail_("User not found")]
  ELSE IF us[userIndex].isActive
  THEN [users |-> us,
        resp |-> Fail_("Cannot permanently delete active user. Deactivate first.")]
  ELSE [users |-> Splice1(us, userIndex), resp |-> Next_(TRUE)]

\* ---------------------------------------------------------------- use cases
\* CreateUserUseCase.validateUserData: the message of the Error it throws,
\* "" when it returns normally
validateUserData(userData) ==
  IF Falsy(userData, "email") \/ Len(Trim(userData.email)) = 0
  THEN "Email is required"
  ELSE IF Falsy(userData, "firstName") \/ Len(Trim(userData.firstName)) = 0
  THEN "First name is required"
  ELSE IF Falsy(userData, "lastName") \/ Len(Trim(userData.lastName)) = 0
  THEN "Last name is required"
  ELSE IF ~EmailRegexTest(userData.email)
  THEN "Invalid email format"
  ELSE IF Len(Trim(userData.firstName)) < 2
  THEN "First name must be at least 2 characters long"
  ELSE IF Len(Trim(userData.lastName)) < 2
  THEN "Last name must be at least 2 characters long"
  ELSE IF ~NameRegexTest(userData.firstName)
  THEN "First name can only contain letters and spaces"
  ELSE IF ~NameRegexTest(userData.lastName)
  THEN "Last name can only contain letters and spaces"
  ELSE ""

\* the id check shared by Update and Delete: !id || id.trim().length === 0
validateId(id) ==
  IF id = <<>> \/ Len(Trim(id)) = 0 THEN "User ID is required" ELSE ""

\* UpdateUserUseCase.validateInput
validateInput(id, userData) ==
  IF validateId(id) # "" THEN validateId(id)
  ELSE IF DOMAIN userData = {} THEN "Update data is required"
  ELSE ""

\* one field of UpdateUserUseCase.validateUpdateData
validateUpdateField(userData, key, label) ==
  IF ~Has(userData, key) THEN ""
  ELSE IF userData[key] = <<>> \/ Len(Trim(userData[key])) = 0
  THEN label \o " cannot be empty"
  ELSE IF Len(Trim(userData[key])) < 2
  THEN label \o " must be at least 2 characters long"
  ELSE IF ~NameRegexTest(userData[key])
  THEN label \o " can only contain letters and spaces"
  ELSE ""

\* UpdateUserUseCase.validateUpdateData
validateUpdateData(userData) ==
  IF validateUpdateField(userData, "firstName", "First name") # ""
  THEN validateUpdateField(userData, "firstName", "First name")
  ELSE validateUpdateField(userData, "lastName", "Last name")

Finished == {"idle", "done", "failed", "thrown"}

\* a synchronous throw of the entry point: nothing was called
Throw(p, useCase, a, message) ==
  /\ pc' = [pc EXCEPT ![p] = "thrown"]
  /\ uc' = [uc EXCEPT ![p] = useCase]
  /\ arg' = [arg EXCEPT ![p] = a]
  /\ outcome' = [outcome EXCEPT ![p] = Fail_(message)]
  /\ calls' = [calls EXCEPT ![p] = <<>>]
  /\ pending' = [pending EXCEPT ![p] = NoPending]
  /\ fetched' = [fetched EXCEPT ![p] = NoPending]
  /\ UNCHANGED <<services, users, nextId, now>>

\* the entry point made its first repository call, a read, and returned the
\* pipeline; the read was evaluated by the call, its delivery is delayed
Await(p, useCase, a, call, value) ==
  /\ pc' = [pc EXCEPT ![p] = "awaitCheck"]
  /\ uc' = [uc EXCEPT ![p] = useCase]
  /\ arg' = [arg EXCEPT ![p] = a]
  /\ outcome' = [outcome EXCEPT ![p] = NoPending]
  /\ calls' = [calls EXCEPT ![p] = <<call>>]
  /\ pending' = [pending EXCEPT ![p] = Next_(value)]
  /\ fetched' = [fetched EXCEPT ![p] = NoPending]
  /\ UNCHANGED <<services, users, nextId, now>>

\* throwError(...) returned from the switchMap callback: the pipeline errors
Reject(p, message) ==
  /\ pc' = [pc EXCEPT ![p] = "failed"]
  /\ outcome' = [outcome EXCEPT ![p] = Fail_(message)]
  /\ pending' = [pending EXCEPT ![p] = NoPending]
  /\ fetched' = [fetched EXCEPT ![p] = pending[p]]
  /\ UNCHANGED <<services, users, nextId, now, uc, arg, calls>>

\* the switchMap callback made the mutating repository call: the repository
\* has changed its array, the notification it returned is awaited
Mutate(p, call, r, nid) ==
  /\ pc' = [pc EXCEPT ![p] = "awaitMut"]
  /\ calls' = [calls EXCEPT ![p] = Append(@, call)]
  /\ pending' = [pending EXCEPT ![p] = r.resp]
  /\ fetched' = [fetched EXCEPT ![p] = pending[p]]
  /\ users' = r.users
  /\ nextId' = nid
  /\ UNCHANGED <<services, now, uc, arg, outcome>>

\* the inner observable delivered: the subscriber gets its value or error
Settle(p) ==
  /\ pc[p] = "awaitMut"
  /\ pc' = [pc EXCEPT ![p] = IF pending[p].kind = "next" THEN "done" ELSE "failed"]
  /\ outcome' = [outcome EXCEPT ![p] = pending[p]]
  /\ pending' = [pending EXCEPT ![p] = NoPending]
  /\ UNCHANGED <<services, users, nextId, now, uc, arg, fetched, calls>>

\* CreateUserUseCase.execute(userData), up to the returned pipeline
CreateExecute(p, userData) ==
  /\ pc[p] \in Finished
  /\ nextId < FirstNextId + MaxCreates
  /\ IF validateUserData(userData) # ""
     THEN Throw(p, "create", userData, validateUserData(userData))
     ELSE Await(p, "create", userData,
                Call("existsByEmail", <<userData.email>>),
                existsByEmail(users, userData.email))

\* a callback that creates whatever the existence check answered
CreateExistsIgnored(p) ==
  /\ uc[p] = "create" /\ pc[p] = "awaitCheck"
  /\ LET r == RepoCreate(users, nextId, arg[p], Today)
     IN Mutate(p, Call("create", <<arg[p]>>), r, r.nextId)

\* a callback that calls create a second time when the first call failed
CreateExistsRetry(p) ==
  /\ uc[p] = "create" /\ pc[p] = "awaitCheck"
  /\ IF pending[p].value
     THEN Reject(p, "User with this email already exists")
     ELSE LET r == RepoCreate(users, nextId, arg[p], Today)
          IN IF r.resp.kind = "error"
             THEN /\ pc' = [pc EXCEPT ![p] = "awaitMut"]
                  /\ calls' = [calls EXCEPT ![p] =
                                 @ \o <<Call("create", <<arg[p]>>),
                                        Call("create", <<arg[p]>>)>>]
                  /\ pending' = [pending EXCEPT ![p] = r.resp]
                  /\ fetched' = [fetched EXCEPT ![p] = pending[p]]
                  /\ UNCHANGED <<services, users, nextId, now, uc, arg, outcome>>
             ELSE Mutate(p, Call("create", <<arg[p]>>), r, r.nextId)

\* the switchMap callback of CreateUserUseCase.execute
CreateExists(p) ==
  /\ uc[p] = "create" /\ pc[p] = "awaitCheck"
  /\ IF pending[p].value
     THEN Reject(p, "User with this email already exists")
     ELSE LET r == RepoCreate(users, nextId, arg[p], Today)
          IN Mutate(p, Call("create", <<arg[p]>>), r, r.nextId)

\* map((user) => user) and delivery to the subscriber
CreateSettle(p) ==
  /\ uc[p] = "create"
  /\ Settle(p)

\* an entry point that dispatches getById and update together instead of
\* waiting for getById
UpdateExecuteParallel(p, id, userData) ==
  /\ pc[p] \in Finished
  /\ IF validateInput(id, userData) # ""
     THEN Throw(p, "update", [id |-> id, userData |-> userData],
                validateInput(id, userData))
     ELSE LET r == RepoUpdate(users, id, userData, Today) IN
          /\ pc' = [pc EXCEPT ![p] = "awaitMut"]
          /\ uc' = [uc EXCEPT ![p] = "update"]
          /\ arg' = [arg EXCEPT ![p] = [id |-> id, userData |-> userData]]
          /\ outcome' = [outcome EXCEPT ![p] = NoPending]
          /\ calls' = [calls EXCEPT ![p] =
                         <<Call("getById", <<id>>), Call("update", <<id, userData>>)>>]
          /\ pending' = [pending EXCEPT ![p] = r.resp]
          /\ fetched' = [fetched EXCEPT ![p] = NoPending]
          /\ users' = r.users
          /\ UNCHANGED <<services, nextId, now>>

\* an entry point that validates the new names itself, before getById
UpdateExecuteEager(p, id, userData) ==
  /\ pc[p] \in Finished
  /\ IF validateInput(id, userData) # ""
     THEN Throw(p, "update", [id |-> id, userData |-> userData],
                validateInput(id, userData))
     ELSE IF validateUpdateData(userData) # ""
     THEN Throw(p, "update", [id |-> id, userData |-> userData],
                validateUpdateData(userData))
     ELSE Await(p, "update", [id |-> id, userData |-> userData],
                Call("getById", <<id>>), getById(users, id))

\* UpdateUserUseCase.execute(id, userData), up to the returned pipeline
UpdateExecute(p, id, userData) ==
  /\ pc[p] \in Finished
  /\ IF validateInput(id, userData) # ""
     THEN Throw(p, "update", [id |-> id, userData |-> userData],
                validateInput(id, userData))
     ELSE Await(p, "update", [id |-> id, userData |-> userData],
                Call("getById", <<id>>), getById(users, id))

\* a callback that validates the new names before it looks at isActive
UpdateFetchedValidatesFirst(p) ==
  /\ uc[p] = "update" /\ pc[p] = "awaitCheck"
  /\ LET existingUser == pending[p].value IN
     IF existingUser = Null
     THEN Reject(p, "User not found")
     ELSE IF validateUpdateData(arg[p].userData) # ""
     THEN Reject(p, validateUpdateData(arg[p].userData))
     ELSE IF ~existingUser.isActive
     THEN Reject(p, "Cannot update inactive user")
     ELSE Mutate(p, Call("update", <<arg[p].id, arg[p].userData>>),
                 RepoUpdate(users, arg[p].id, arg[p].userData, Today), nextId)

\* the switchMap callback of UpdateUserUseCase.execute
UpdateFetched(p) ==
  /\ uc[p] = "update" /\ pc[p] = "awaitCheck"
  /\ LET existingUser == pending[p].value IN
     IF existingUser = Null
     THEN Reject(p, "User not found")
     ELSE IF ~existingUser.isActive
     THEN Reject(p, "Cannot update inactive user")
     ELSE IF validateUpdateData(arg[p].userData) # ""
     THEN Reject(p, validateUpdateData(arg[p].userData))
     ELSE Mutate(p, Call("update", <<arg[p].id, arg[p].userData>>),
                 RepoUpdate(users, arg[p].id, arg[p].userData, Today), nextId)

UpdateSettle(p) ==
  /\ uc[p] = "update"
  /\ Settle(p)

\* DeleteUserUseCase.executeSoftDelete(id), up to the returned pipeline
SoftDeleteExecute(p, id) ==
  /\ pc[p] \in Finished
  /\ IF validateId(id) # ""
     THEN Throw(p, "softDelete", [id |-> id], validateId(id))
     ELSE Await(p, "softDelete", [id |-> id],
                Call("getById", <<id>>), getById(users, id))

\* a soft delete that leaves the already-inactive case to the repository
SoftDeleteFetchedNoGuard(p) ==
  /\ uc[p] = "softDelete" /\ pc[p] = "awaitCheck"
  /\ LET user == pending[p].value IN
     IF user = Null
     THEN Reject(p, "User not found")
     ELSE Mutate(p, Call("delete", <<arg[p].id>>),
                 RepoDelete(users, arg[p].id, Today), nextId)

\* the switchMap callback of executeSoftDelete
SoftDeleteFetched(p) ==
  /\ uc[p] = "softDelete" /\ pc[p] = "awaitCheck"
  /\ LET user == pending[p].value IN
     IF user = Null
     THEN Reject(p, "User not found")
     ELSE IF ~user.isActive
     THEN Reject(p, "User is already inactive")
     ELSE Mutate(p, Call("delete", <<arg[p].id>>),
                 RepoDelete(users, arg[p].id, Today), nextId)

\* DeleteUserUseCase.executeHardDelete(id), up to the returned pipeline
HardDeleteExecute(p, id) ==
  /\ pc[p] \in Finished
  /\ IF validateId(id) # ""
     THEN Throw(p, "hardDelete", [id |-> id], validateId(id))
     ELSE Await(p, "hardDelete", [id |-> id],
                Call("getById", <<id>>), getById(users, id))

\* a hard delete that leaves the still-active case to the repository
HardDeleteFetchedNoGuard(p) ==
  /\ uc[p] = "hardDelete" /\ pc[p] = "awaitCheck"
  /\ LET user == pending[p].value IN
     IF user = Null
     THEN Reject(p, "User not found")
     ELSE Mutate(p, Call("permanentDelete", <<arg[p].id>>),
                 RepoPermanentDelete(users, arg[p].id), nextId)

\* the switchMap callback of executeHardDelete
HardDeleteFetched(p) ==
  /\ uc[p] = "hardDelete" /\ pc[p] = "awaitCheck"
  /\ LET user == pending[p].value IN
     IF user = Null
     THEN Reject(p, "User not found")
     ELSE IF user.isActive
     THEN Reject(p, "Cannot permanently delete active user. Deactivate first.")
     ELSE Mutate(p, Call("permanentDelete", <<arg[p].id>>),
                 RepoPermanentDelete(users, arg[p].id), nextId)

DeleteSettle(p) ==
  /\ uc[p] \in {"softDelete", "hardDelete"}
  /\ Settle(p)

\* ------------------------------------------------------------------ inputs
NewEmail == <<"a", "@", "b", ".", "c">>
JohnEmail ==
  <<"j", "o", "h", "n", ".", "d", "o", "e", "@",
    "e", "x", "a", "m", "p", "l", "e", ".", "c", "o", "m">>

\* payloads given to CreateUserUseCase.execute
CreateInputs ==
  { [email |-> NewEmail, firstName |-> <<"J", "o">>, lastName |-> <<"L", "i">>],
    [email |-> JohnEmail, firstName |-> <<"J", "o">>, lastName |-> <<"L", "i">>],
    [email |-> <<"a", "b">>, firstName |-> <<"J", "o">>, lastName |-> <<"L", "i">>] }

\* ids given to the Update and Delete use cases: the empty id, an active seed
\* user, the first id the repository will assign
IdInputs == { <<>>, <<"1">>, <<"6">> }

\* payloads given to UpdateUserUseCase.execute
UpdateInputs ==
  { <<>>,
    [firstName |-> <<"A", "l">>],
    [firstName |-> <<"A", "l">>, lastName |-> <<"Y", "2">>] }

\* ------------------------------------------------------------ specification
\* the seed data of UserMockRepository
SeedUsers ==
  << User(<<"1">>, JohnEmail, <<"J", "o", "h", "n">>, <<"D", "o", "e">>,
          19372, 19372, TRUE),
     User(<<"2">>,
          <<"j", "a", "n", "e", ".", "s", "m", "i", "t", "h", "@",
            "e", "x", "a", "m", "p", "l", "e", ".", "c", "o", "m">>,
          <<"J", "a", "n", "e">>, <<"S", "m", "i", "t", "h">>,
          19408, 19408, TRUE),
     User(<<"3">>,
          <<"b", "o", "b", ".", "j", "o", "h", "n", "s", "o", "n", "@",
            "e", "x", "a", "m", "p", "l", "e", ".", "c", "o", "m">>,
          <<"B", "o", "b">>, <<"J", "o", "h", "n", "s", "o", "n">>,
          19426, 19426, FALSE),
     User(<<"4">>,
          <<"a", "l", "i", "c", "e", ".", "b", "r", "o", "w", "n", "@",
            "e", "x", "a", "m", "p", "l", "e", ".", "c", "o", "m">>,
          <<"A", "l", "i", "c", "e">>, <<"B", "r", "o", "w", "n">>,
          19452, 19452, TRUE),
     User(<<"5">>,
          <<"c", "h", "a", "r", "l", "i", "e", ".", "w", "i", "l", "s", "o", "n", "@",
            "e", "x", "a", "m", "p", "l", "e", ".", "c", "o", "m">>,
          <<"C", "h", "a", "r", "l", "i", "e">>, <<"W", "i", "l", "s", "o", "n">>,
          19489, 19489, TRUE) >>

Init ==
  /\ users = SeedUsers
  /\ nextId = FirstNextId
  /\ now = 20000
  /\ pc = [p \in Procs |-> "idle"]
  /\ uc = [p \in Procs |-> "none"]
  /\ arg = [p \in Procs |-> <<>>]
  /\ pending = [p \in Procs |-> NoPending]
  /\ fetched = [p \in Procs |-> NoPending]
  /\ outcome = [p \in Procs |-> NoPending]
  /\ calls = [p \in Procs |-> <<>>]
  /\ InitServices

Next ==
  \/ \E p \in Procs : \E userData \in CreateInputs : CreateExecute(p, userData)
  \/ \E p \in Procs : CreateExists(p)
  \/ \E p \in Procs : CreateSettle(p)
  \/ \E p \in Procs : \E id \in IdInputs : \E userData \in UpdateInputs :
        UpdateExecute(p, id, userData)
  \/ \E p \in Procs : UpdateFetched(p)
  \/ \E p \in Procs : UpdateSettle(p)
  \/ \E p \in Procs : \E id \in IdInputs : SoftDeleteExecute(p, id)
  \/ \E p \in Procs : SoftDeleteFetched(p)
  \/ \E p \in Procs : \E id \in IdInputs : HardDeleteExecute(p, id)
  \/ \E p \in Procs : HardDeleteFetched(p)
  \/ \E p \in Procs : DeleteSettle(p)

Spec == Init /\ [][Next]_vars

\* ================================================================== claims
\* ids the repository can have assigned within the bounds
IdNums == 1..(FirstNextId + MaxCreates + NumProcs)

\* the deletion state of the user with id n
DelState(us, nid, n) ==
  IF n >= nid THEN "Unborn"
  ELSE IF findIndexById(us, toString(n)) = 0 THEN "Removed"
  ELSE IF us[findIndexById(us, toString(n))].isActive THEN "Active"
  ELSE "Inactive"

\* execution p makes repository call c in this step
Issues(p, c) == calls'[p] = Append(calls[p], c)

\* number of calls of operation op in a call log
Count(log, op) == Cardinality({i \in 1..Len(log) : log[i].op = op})

\* the switchMap callback of execution p runs in this step
Callback(p) == pc[p] = "awaitCheck" /\ pc'[p] # "awaitCheck"

\* C1: every change of a stored user's deletion state is Active -> Inactive,
\* made by the delete call of a soft-delete execution, or Inactive -> Removed,
\* made by the permanentDelete call of a hard-delete execution; no user is
\* removed while active and no other change of deletion state exists.
C1_DeletionStateMachine ==
  [][\A n \in IdNums :
       LET before == DelState(users, nextId, n)
           after == DelState(users', nextId', n)
       IN (before \in {"Active", "Inactive"} /\ after # before) =>
            \/ /\ before = "Active" /\ after = "Inactive"
               /\ \E p \in Procs :
                    uc[p] = "softDelete" /\ Issues(p, Call("delete", <<toString(n)>>))
            \/ /\ before = "Inactive" /\ after = "Removed"
               /\ \E p \in Procs :
                    /\ uc[p] = "hardDelete"
                    /\ Issues(p, Call("permanentDelete", <<toString(n)>>))
    ]_vars

\* C1 witness: seed user 1 went Active -> Inactive -> Removed and the hard
\* delete that removed it has completed
C1_Witness ==
  /\ DelState(users, nextId, 1) = "Removed"
  /\ \E p \in Procs :
       uc[p] = "hardDelete" /\ pc[p] = "done" /\ arg[p].id = <<"1">>

\* the switchMap callback of execution p has run (fetched holds what it got)
Delivered(p) == fetched[p].kind = "next"

\* C2: executeHardDelete calls permanentDelete exactly once if and only if the
\* user delivered by getById exists and is inactive; if that user is active
\* the execution fails with "Cannot permanently delete active user.
\* Deactivate first." and permanentDelete is not called.
C2_HardDeleteGuard ==
  \A p \in Procs : uc[p] = "hardDelete" =>
    IF Delivered(p)
    THEN LET user == fetched[p].value IN
         IF user # Null /\ ~user.isActive
         THEN /\ Count(calls[p], "permanentDelete") = 1
              /\ calls[p][2] = Call("permanentDelete", <<arg[p].id>>)
         ELSE /\ Count(calls[p], "permanentDelete") = 0
              /\ pc[p] = "failed"
              /\ user # Null =>
                   outcome[p] =
                     Fail_("Cannot permanently delete active user. Deactivate first.")
    ELSE Count(calls[p], "permanentDelete") = 0

\* C2 witness: a hard delete of an inactive user completed after one
\* permanentDelete call
C2_Witness ==
  \E p \in Procs :
    /\ uc[p] = "hardDelete" /\ pc[p] = "done"
    /\ Delivered(p) /\ ~fetched[p].value.isActive
    /\ Count(calls[p], "permanentDelete") = 1
    /\ outcome[p] = Next_(TRUE)

\* C3: executeSoftDelete on a fetched user that is already inactive fails with
\* "User is already inactive"; delete is not called and the store is unchanged.
C3_SoftDeleteInactiveFails ==
  [][\A p \in Procs :
       (/\ uc[p] = "softDelete" /\ Callback(p)
        /\ pending[p].value # Null /\ ~pending[p].value.isActive) =>
          /\ pc'[p] = "failed"
          /\ outcome'[p] = Fail_("User is already inactive")
          /\ calls'[p] = calls[p]
          /\ Count(calls'[p], "delete") = 0
          /\ users' = users
    ]_vars

\* C3 witness: a soft delete of an inactive user has failed without a delete call
C3_Witness ==
  \E p \in Procs :
    /\ uc[p] = "softDelete" /\ pc[p] = "failed"
    /\ outcome[p] = Fail_("User is already inactive")
    /\ calls[p] = <<Call("getById", <<arg[p].id>>)>>
    /\ DelState(users, nextId, 1) = "Inactive"

\* the use cases that check existence before they mutate, and their mutations
MutatingUseCases == {"update", "softDelete", "hardDelete"}
MutatingOps == {"update", "delete", "permanentDelete"}

\* C4: in Update, soft delete and hard delete a mutating repository call has
\* been made only if the getById result of the same execution has been
\* delivered, and it is the second call, after getById; when getById delivered
\* null the execution failed with "User not found" and made no mutating call.
C4_CheckPrecedesMutation ==
  \A p \in Procs : uc[p] \in MutatingUseCases =>
    /\ (\E i \in 1..Len(calls[p]) : calls[p][i].op \in MutatingOps) =>
          /\ Delivered(p)
          /\ fetched[p].value # Null
          /\ Len(calls[p]) = 2
          /\ calls[p][1] = Call("getById", <<arg[p].id>>)
          /\ calls[p][2].op \in MutatingOps
    /\ ~Delivered(p) /\ pc[p] # "thrown" =>
          /\ pc[p] = "awaitCheck"
          /\ calls[p] = <<Call("getById", <<arg[p].id>>)>>
    /\ (Delivered(p) /\ fetched[p].value = Null) =>
          /\ pc[p] = "failed"
          /\ outcome[p] = Fail_("User not found")
          /\ calls[p] = <<Call("getById", <<arg[p].id>>)>>

\* C4 witness: an update has made its update call after its getById call
C4_Witness ==
  \E p \in Procs :
    /\ uc[p] = "update" /\ pc[p] = "awaitMut"
    /\ calls[p] = <<Call("getById", <<arg[p].id>>),
                    Call("update", <<arg[p].id, arg[p].userData>>)>>

C6_CreateCallsOnce ==
  [][\A p \in Procs : uc'[p] = "create" =>
       /\ (uc[p] = "create" /\ Callback(p) /\ pending[p].value = FALSE) =>
             /\ calls[p] = <<Call("existsByEmail", <<arg[p].email>>)>>
             /\ Issues(p, Call("create", <<arg[p]>>))
             /\ pc'[p] = "awaitMut"
             /\ arg'[p] = arg[p]
       /\ (pc[p] = "awaitMut" /\ pc'[p] # "awaitMut") =>
             /\ outcome'[p] = pending[p]
             /\ pc'[p] = (IF pending[p].kind = "next" THEN "done" ELSE "failed")
             /\ calls'[p] = calls[p]
       /\ Count(calls'[p], "existsByEmail") <= 1
       /\ Count(calls'[p], "create") <= 1
       /\ pc'[p] = "done" =>
             /\ calls'[p] = <<Call("existsByEmail", <<arg'[p].email>>),
                              Call("create", <<arg'[p]>>)>>
             /\ outcome'[p].value.email = arg'[p].email
             /\ outcome'[p].value.firstName = arg'[p].firstName
             /\ outcome'[p].value.lastName = arg'[p].lastName
             /\ outcome'[p].value.isActive
    ]_vars

\* C6 witness: one create completed with the created user while another, whose
\* existence check had also answered false, got the error of its create call
C6_Witness ==
  \E p \in Procs : \E q \in Procs :
    /\ uc[p] = "create" /\ pc[p] = "done" /\ outcome[p].value.id = <<"6">>
    /\ uc[q] = "create" /\ pc[q] = "failed"
    /\ Count(calls[q], "create") = 1

\* C7: the firstName and lastName of a stored user do not change in a step in
\* which that user is already inactive.
C7_InactiveImmutable ==
  [][\A n \in IdNums :
       LET i == findIndexById(users, toString(n))
           j == findIndexById(users', toString(n))
       IN (i # 0 /\ j # 0 /\ ~users[i].isActive) =>
            /\ users'[j].firstName = users[i].firstName
            /\ users'[j].lastName = users[i].lastName
    ]_vars

\* C8: no two stored users have the same e-mail.
C8_EmailUnique ==
  \A i \in 1..Len(users) : \A j \in 1..Len(users) :
    i # j => users[i].email # users[j].email

\* C8 witness: two creates of the same e-mail both got the answer false from
\* existsByEmail and both called create
C8_Witness ==
  \E p \in Procs : \E q \in Procs :
    /\ p # q
    /\ uc[p] = "create" /\ uc[q] = "create"
    /\ arg[p].email = arg[q].email
    /\ Count(calls[p], "create") = 1 /\ Count(calls[q], "create") = 1
    /\ \E i \in 1..Len(users) : users[i].email = arg[p].email

\* C9: UpdateUserUseCase.execute on a fetched user with isActive = false fails
\* with "Cannot update inactive user" whatever the payload, invalid names
\* included, and update is not called.
C9_InactiveBeforeValidation ==
  \A p \in Procs :
    (/\ uc[p] = "update" /\ Delivered(p)
     /\ fetched[p].value # Null /\ ~fetched[p].value.isActive) =>
       /\ pc[p] = "failed"
       /\ outcome[p] = Fail_("Cannot update inactive user")
       /\ calls[p] = <<Call("getById", <<arg[p].id>>)>>
       /\ Count(calls[p], "update") = 0

\* C9 witness: an update with an invalid name on an inactive user has failed
\* with the inactive-user error
C9_Witness ==
  \E p \in Procs :
    /\ uc[p] = "update" /\ pc[p] = "failed"
    /\ validateUpdateData(arg[p].userData) # ""
    /\ Delivered(p) /\ fetched[p].value # Null /\ ~fetched[p].value.isActive
    /\ outcome[p] = Fail_("Cannot update inactive user")
    /\ calls[p] = <<Call("getById", <<arg[p].id>>)>>

\* ------------------------------------------- validation of create payloads
\* all strings of at most n characters over an alphabet
Strings(chars, n) == UNION { [1..k -> chars] : k \in 0..n }

\* characters of the e-mails and of the names that are drawn
EmailChars == {"a", "@", ".", " "}
NameChars == {"a", " ", "\t", "1"}

\* payloads given to CreateUserUseCase.execute: every e-mail with valid
\* names, every pair of names with a valid e-mail, and payloads with a key
\* left out
ValidateInputs ==
  { [email |-> e, firstName |-> <<"J", "o">>, lastName |-> <<"L", "i">>] :
      e \in Strings(EmailChars, MaxEmailLen) }
  \cup
  { [email |-> NewEmail, firstName |-> f, lastName |-> l] :
      f \in Strings(NameChars, MaxNameLen), l \in Strings(NameChars, MaxNameLen) }
  \cup
  { [firstName |-> <<"J", "o">>, lastName |-> <<"L", "i">>],
    [email |-> NewEmail, lastName |-> <<"L", "i">>],
    [email |-> NewEmail, firstName |-> <<"J", "o">>] }

\* one caller holds a payload and calls CreateUserUseCase.execute with it
InitValidate ==
  /\ users = SeedUsers
  /\ nextId = FirstNextId
  /\ now = 20000
  /\ pc = [p \in Procs |-> "idle"]
  /\ uc = [p \in Procs |-> "none"]
  /\ arg \in { [p \in Procs |-> IF p = 1 THEN d ELSE <<>>] : d \in ValidateInputs }
  /\ pending = [p \in Procs |-> NoPending]
  /\ fetched = [p \in Procs |-> NoPending]
  /\ outcome = [p \in Procs |-> NoPending]
  /\ calls = [p \in Procs |-> <<>>]
  /\ InitServices

NextValidate ==
  \/ \E p \in {1} : pc[p] = "idle" /\ CreateExecute(p, arg[p])
  \/ \E p \in {1} : CreateExists(p)
  \/ \E p \in {1} : CreateSettle(p)

SpecValidate == InitValidate /\ [][NextValidate]_vars

\* the names the claim rejects: missing, shorter than 2 characters after
\* trimming, or with a character that is neither a letter nor a space
NameRejected(userData, key) ==
  \/ Falsy(userData, key)
  \/ Len(Trim(userData[key])) < 2
  \/ \E i \in 1..Len(userData[key]) : userData[key][i] \notin Letters \cup {" "}

\* the payloads the claim rejects
PayloadRejected(userData) ==
  \/ ~Has(userData, "email")
  \/ ~EmailRegexTest(userData.email)
  \/ NameRejected(userData, "firstName")
  \/ NameRejected(userData, "lastName")

\* C10: CreateUserUseCase.execute with an e-mail that fails the e-mail regex,
\* or a name that is missing, shorter than 2 characters after trimming or has
\* a character other than letters and spaces, throws a validation failure and
\* makes no repository call.
C10_InvalidCreateRejected ==
  \A p \in Procs :
    (uc[p] = "create" /\ PayloadRejected(arg[p])) =>
       /\ pc[p] = "thrown"
       /\ outcome[p].kind = "error"
       /\ calls[p] = <<>>

\* ------------------------------------------------------------ domain errors
\* the fields a DomainError subclass sets: name is the class name
DomainError(name, code, userMessage, message) ==
  [name |-> name, code |-> code, userMessage |-> userMessage, message |-> message]

UserNotFoundError(userId) ==
  DomainError("UserNotFoundError", "USER_NOT_FOUND", "User not found",
              "User with ID " \o userId \o " not found")

UserAlreadyExistsError(email) ==
  DomainError("UserAlreadyExistsError", "USER_ALREADY_EXISTS",
              "A user with this email already exists",
              "User with email " \o email \o " already exists")

\* details holds the validation errors
InvalidUserDataError(message, validationErrors) ==
  DomainError("InvalidUserDataError", "INVALID_USER_DATA",
              "Invalid user data provided", message)
    @@ [details |-> validationErrors]

\* operation is a field of its own
RepositoryError(message, operation) ==
  DomainError("RepositoryError", "REPOSITORY_ERROR",
              "Data access error occurred", message)
    @@ [operation |-> operation]

NetworkError(message) ==
  DomainError("NetworkError", "NETWORK_ERROR", "Network connection error", message)

\* obj.key || fallback, for a field that holds text
OrText(obj, key, fallback) ==
  IF Has(obj, key) /\ obj[key] # "" THEN obj[key] ELSE fallback

\* httpError.status === status
StatusIs(httpError, status) ==
  Has(httpError, "status") /\ httpError.status = status

\* httpError.error?.errors || [httpError.error?.message || 'Invalid data']
validationErrorsOf(httpError) ==
  IF Has(httpError, "error") /\ Has(httpError.error, "errors")
  THEN httpError.error.errors
  ELSE IF Has(httpError, "error")
  THEN <<OrText(httpError.error, "message", "Invalid data")>>
  ELSE <<"Invalid data">>

\* a factory that has no case for the conflict status
fromHttpErrorNoConflict(httpError) ==
  IF StatusIs(httpError, 404)
  THEN UserNotFoundError(OrText(httpError, "url", "unknown"))
  ELSE IF StatusIs(httpError, 400)
  THEN InvalidUserDataError("Validation failed", validationErrorsOf(httpError))
  ELSE IF StatusIs(httpError, 0)
  THEN NetworkError("Network connection failed")
  ELSE RepositoryError(OrText(httpError, "message", "Repository operation failed"),
                       OrText(httpError, "url", "unknown"))

\* DomainErrorFactory.fromHttpError
fromHttpError(httpError) ==
  IF StatusIs(httpError, 404)
  THEN UserNotFoundError(OrText(httpError, "url", "unknown"))
  ELSE IF StatusIs(httpError, 409)
  THEN UserAlreadyExistsError(
         IF Has(httpError, "error")
         THEN OrText(httpError.error, "email", "unknown") ELSE "unknown")
  ELSE IF StatusIs(httpError, 400)
  THEN InvalidUserDataError("Validation failed", validationErrorsOf(httpError))
  ELSE IF StatusIs(httpError, 0)
  THEN NetworkError("Network connection failed")
  ELSE RepositoryError(OrText(httpError, "message", "Repository operation failed"),
                       OrText(httpError, "url", "unknown"))

\* ------------------------------------------------------ HTTP UserRepository
\* an observable that errors with the given error object
ThrowError(e) == [kind |-> "error", value |-> e]

\* new Date(text) for the decimal text of a day number
RECURSIVE DateOf(_)
DateOf(text) ==
  IF text = <<>> THEN 0
  ELSE 10 * DateOf(SubSeq(text, 1, Len(text) - 1))
       + (CHOOSE d \in 0..9 : Digit(d) = text[Len(text)])

\* mapToUser: the notification map(...) produces for one record of the API,
\* an error when the User constructor throws
mapToUser(userData) ==
  IF UserCtorError(userData.email, userData.firstName, userData.lastName) # ""
  THEN Fail_(UserCtorError(userData.email, userData.firstName, userData.lastName))
  ELSE Next_(User(userData.id, userData.email, userData.firstName,
                  userData.lastName, DateOf(userData.createdAt),
                  DateOf(userData.updatedAt), userData.isActive))

\* list.map(userData => this.mapToUser(userData)): the first throw ends it
mapToUsers(list) ==
  IF \E i \in 1..Len(list) : mapToUser(list[i]).kind = "error"
  THEN mapToUser(list[CHOOSE i \in 1..Len(list) :
                        /\ mapToUser(list[i]).kind = "error"
                        /\ \A j \in 1..(i - 1) : mapToUser(list[j]).kind = "next"])
  ELSE Next_([i \in 1..Len(list) |-> mapToUser(list[i]).value])

\* Each operation is source.pipe(map(project), catchError(selector)): mapped
\* is the notification that leaves map, the transport's error or what project
\* made of the body (an error when project threw), and an error goes
\* through selector.

\* UserRepository.getAll
HttpGetAll(answer) ==
  LET mapped ==
        IF answer.kind = "error" THEN answer
        ELSE IF mapToUsers(answer.value.users).kind = "error"
        THEN mapToUsers(answer.value.users)
        ELSE Next_([users |-> mapToUsers(answer.value.users).value,
                    total |-> answer.value.total, page |-> answer.value.page,
                    limit |-> answer.value.limit])
  IN IF mapped.kind = "next" THEN mapped
     ELSE ThrowError(fromHttpError(mapped.value))

\* UserRepository.getById
HttpGetById(answer) ==
  LET mapped ==
        IF answer.kind = "error" THEN answer
        ELSE IF answer.value = Null THEN Next_(Null)
        ELSE mapToUser(answer.value)
  IN IF mapped.kind = "next" THEN mapped
     ELSE IF StatusIs(mapped.value, 404) THEN Next_(Null)
     ELSE ThrowError(fromHttpError(mapped.value))

\* a getByEmail that has no case for the 404 answer
HttpGetByEmailNoCase(answer) ==
  LET mapped ==
        IF answer.kind = "error" THEN answer
        ELSE IF answer.value = Null THEN Next_(Null)
        ELSE mapToUser(answer.value)
  IN IF mapped.kind = "next" THEN mapped
     ELSE Fail_("Failed to fetch user")

\* UserRepository.getByEmail
HttpGetByEmail(answer) ==
  LET mapped ==
        IF answer.kind = "error" THEN answer
        ELSE IF answer.value = Null THEN Next_(Null)
        ELSE mapToUser(answer.value)
  IN IF mapped.kind = "next" THEN mapped
     ELSE IF StatusIs(mapped.value, 404) THEN Next_(Null)
     ELSE Fail_("Failed to fetch user")

\* UserRepository.create
HttpCreate(answer) ==
  LET mapped == IF answer.kind = "error" THEN answer ELSE mapToUser(answer.value)
  IN IF mapped.kind = "next" THEN mapped
     ELSE IF StatusIs(mapped.value, 409)
     THEN Fail_("User with this email already exists")
     ELSE Fail_("Failed to create user")

\* UserRepository.update
HttpUpdate(answer) ==
  LET mapped == IF answer.kind = "error" THEN answer ELSE mapToUser(answer.value)
  IN IF mapped.kind = "next" THEN mapped
     ELSE IF StatusIs(mapped.value, 404) THEN Fail_("User not found")
     ELSE Fail_("Failed to update user")

\* UserRepository.delete
HttpDelete(answer) ==
  IF answer.kind = "next" THEN Next_(answer.value.success)
  ELSE IF StatusIs(answer.value, 404) THEN Fail_("User not found")
  ELSE Fail_("Failed to delete user")

\* UserRepository.permanentDelete
HttpPermanentDelete(answer) ==
  IF answer.kind = "next" THEN Next_(answer.value.success)
  ELSE IF StatusIs(answer.value, 404) THEN Fail_("User not found")
  ELSE Fail_("Failed to permanently delete user")

\* UserRepository.existsByEmail
HttpExistsByEmail(answer) ==
  IF answer.kind = "next" THEN Next_(answer.value.exists)
  ELSE Fail_("Failed to check user existence")

\* UserRepository.getByDateRange
HttpGetByDateRange(answer) ==
  LET mapped == IF answer.kind = "error" THEN answer ELSE mapToUsers(answer.value)
  IN IF mapped.kind = "next" THEN mapped
     ELSE Fail_("Failed to fetch users by date range")

\* UserRepository.getActiveUsersCount
HttpGetActiveUsersCount(answer) ==
  IF answer.kind = "next" THEN Next_(answer.value.count)
  ELSE Fail_("Failed to fetch active users count")

\* UserRepository.search
HttpSearch(answer) ==
  LET mapped == IF answer.kind = "error" THEN answer ELSE mapToUsers(answer.value)
  IN IF mapped.kind = "next" THEN mapped
     ELSE Fail_("Failed to search users")

\* the operations of UserRepository
HttpOps ==
  {"getAll", "getById", "getByEmail", "create", "update", "delete",
   "permanentDelete", "existsByEmail", "getByDateRange", "getActiveUsersCount",
   "search"}

\* the notification an operation of UserRepository delivers when the
\* transport answers its request with the given notification
UserRepository(op, answer) ==
  CASE op = "getAll" -> HttpGetAll(answer)
    [] op = "getById" -> HttpGetById(answer)
    [] op = "getByEmail" -> HttpGetByEmail(answer)
    [] op = "create" -> HttpCreate(answer)
    [] op = "update" -> HttpUpdate(answer)
    [] op = "delete" -> HttpDelete(answer)
    [] op = "permanentDelete" -> HttpPermanentDelete(answer)
    [] op = "existsByEmail" -> HttpExistsByEmail(answer)
    [] op = "getByDateRange" -> HttpGetByDateRange(answer)
    [] op = "getActiveUsersCount" -> HttpGetActiveUsersCount(answer)
    [] op = "search" -> HttpSearch(answer)

\* ------------------------------------------------- Get and List use cases
\* the entry point called one repository operation and returned the
\* observable it got: no callback of the use case stands in between
Delegate(p, useCase, a, call, resp) ==
  /\ pc' = [pc EXCEPT ![p] = "awaitReturn"]
  /\ uc' = [uc EXCEPT ![p] = useCase]
  /\ arg' = [arg EXCEPT ![p] = a]
  /\ outcome' = [outcome EXCEPT ![p] = NoPending]
  /\ calls' = [calls EXCEPT ![p] = <<call>>]
  /\ pending' = [pending EXCEPT ![p] = resp]
  /\ fetched' = [fetched EXCEPT ![p] = NoPending]
  /\ UNCHANGED <<services, users, nextId, now>>

\* the repository's observable delivered to the subscriber of the use case
Return(p) ==
  /\ pc[p] = "awaitReturn"
  /\ pc' = [pc EXCEPT ![p] = IF pending[p].kind = "next" THEN "done" ELSE "failed"]
  /\ outcome' = [outcome EXCEPT ![p] = pending[p]]
  /\ pending' = [pending EXCEPT ![p] = NoPending]
  /\ UNCHANGED <<services, users, nextId, now, uc, arg, fetched, calls>>

\* a get that reports the absent user as a failure
GetExecuteRequired(p, id, answer) ==
  /\ pc[p] \in Finished
  /\ IF validateId(id) # ""
     THEN Throw(p, "get", [id |-> id, answer |-> answer], validateId(id))
     ELSE Delegate(p, "get", [id |-> id, answer |-> answer],
                   Call("getById", <<id>>),
                   IF HttpGetById(answer).kind = "next"
                      /\ HttpGetById(answer).value = Null
                   THEN Fail_("User not found") ELSE HttpGetById(answer))

\* GetUserUseCase.execute(id); answer is what the transport will answer
GetExecute(p, id, answer) ==
  /\ pc[p] \in Finished
  /\ IF validateId(id) # ""
     THEN Throw(p, "get", [id |-> id, answer |-> answer], validateId(id))
     ELSE Delegate(p, "get", [id |-> id, answer |-> answer],
                   Call("getById", <<id>>), HttpGetById(answer))

\* GetUserUseCase.executeByEmail(email)
GetExecuteByEmail(p, email, answer) ==
  /\ pc[p] \in Finished
  /\ IF email = <<>> \/ Len(Trim(email)) = 0
     THEN Throw(p, "getByEmail", [email |-> email, answer |-> answer],
                "Email is required")
     ELSE IF ~EmailRegexTest(email)
     THEN Throw(p, "getByEmail", [email |-> email, answer |-> answer],
                "Invalid email format")
     ELSE Delegate(p, "getByEmail", [email |-> email, answer |-> answer],
                   Call("getByEmail", <<email>>), HttpGetByEmail(answer))

\* const defaults = { page: 1, limit: 10 }
DefaultPage == 1
DefaultLimit == 10
\* Maximum limit for performance
MaxLimit == 100
\* the limit of executeSearch when none is given
DefaultSearchLimit == 20

\* options.key || fallback, for a field that holds a number
OrNumber(obj, key, fallback) ==
  IF Has(obj, key) /\ obj[key] # 0 THEN obj[key] ELSE fallback

\* the search term validateAndSetDefaults returns, as an object that has the
\* key only when the term is defined
searchOf(options) ==
  IF ~Has(options, "search") THEN <<>>
  ELSE IF options.search # <<>> /\ Len(Trim(options.search)) < 2 THEN <<>>
  ELSE [search |-> Trim(options.search)]

\* a normalisation that moves a limit below 1 up to 1
validateAndSetDefaultsClamping(options) ==
  IF options = Null THEN [page |-> DefaultPage, limit |-> DefaultLimit]
  ELSE LET page0 == OrNumber(options, "page", DefaultPage)
           limit0 == OrNumber(options, "limit", DefaultLimit)
           limit1 == IF limit0 < 1 THEN 1 ELSE limit0
       IN [page |-> IF page0 < 1 THEN DefaultPage ELSE page0,
           limit |-> IF limit1 > MaxLimit THEN MaxLimit ELSE limit1]
          @@ searchOf(options)
          @@ (IF Has(options, "isActive")
              THEN [isActive |-> options.isActive] ELSE <<>>)

\* ListUsersUseCase.validateAndSetDefaults; Null is the options left out
validateAndSetDefaults(options) ==
  IF options = Null THEN [page |-> DefaultPage, limit |-> DefaultLimit]
  ELSE LET page0 == OrNumber(options, "page", DefaultPage)
           limit0 == OrNumber(options, "limit", DefaultLimit)
           limit1 == IF limit0 < 1 THEN DefaultLimit ELSE limit0
       IN [page |-> IF page0 < 1 THEN DefaultPage ELSE page0,
           limit |-> IF limit1 > MaxLimit THEN MaxLimit ELSE limit1]
          @@ searchOf(options)
          @@ (IF Has(options, "isActive")
              THEN [isActive |-> options.isActive] ELSE <<>>)

\* ListUsersUseCase.execute(options)
ListExecute(p, options, answer) ==
  /\ pc[p] \in Finished
  /\ Delegate(p, "list", [options |-> options, answer |-> answer],
              Call("getAll", <<validateAndSetDefaults(options)>>),
              HttpGetAll(answer))

\* limit && limit > 0 ? Math.min(limit, 100) : 20
searchLimitOf(input) ==
  IF Has(input, "limit") /\ input.limit # 0 /\ input.limit > 0
  THEN IF input.limit < MaxLimit THEN input.limit ELSE MaxLimit
  ELSE DefaultSearchLimit

\* a search that hands the given limit on as it is
ListExecuteSearchUncapped(p, input, answer) ==
  /\ pc[p] \in Finished
  /\ IF Falsy(input, "query") \/ Len(Trim(input.query)) = 0
     THEN Throw(p, "search", input @@ [answer |-> answer],
                "Search query is required")
     ELSE IF Len(Trim(input.query)) < 2
     THEN Throw(p, "search", input @@ [answer |-> answer],
                "Search query must be at least 2 characters long")
     ELSE Delegate(p, "search", input @@ [answer |-> answer],
                   Call("search",
                        <<Trim(input.query),
                          IF Has(input, "limit") /\ input.limit > 0
                          THEN input.limit ELSE DefaultSearchLimit>>),
                   HttpSearch(answer))

\* ListUsersUseCase.executeSearch(query, limit); input holds the arguments
\* that were given
ListExecuteSearch(p, input, answer) ==
  /\ pc[p] \in Finished
  /\ IF Falsy(input, "query") \/ Len(Trim(input.query)) = 0
     THEN Throw(p, "search", input @@ [answer |-> answer],
                "Search query is required")
     ELSE IF Len(Trim(input.query)) < 2
     THEN Throw(p, "search", input @@ [answer |-> answer],
                "Search query must be at least 2 characters long")
     ELSE Delegate(p, "search", input @@ [answer |-> answer],
                   Call("search", <<Trim(input.query), searchLimitOf(input)>>),
                   HttpSearch(answer))

\* a date-range query that does not look at the clock
ListExecuteByDateRangeNoClock(p, input, answer) ==
  /\ pc[p] \in Finished
  /\ IF ~Has(input, "startDate") \/ ~Has(input, "endDate")
     THEN Throw(p, "dateRange", input @@ [answer |-> answer],
                "Both start date and end date are required")
     ELSE IF input.startDate >= input.endDate
     THEN Throw(p, "dateRange", input @@ [answer |-> answer],
                "Start date must be before end date")
     ELSE Delegate(p, "dateRange", input @@ [answer |-> answer],
                   Call("getByDateRange", <<input.startDate, input.endDate>>),
                   HttpGetByDateRange(answer))

\* ListUsersUseCase.executeByDateRange(startDate, endDate)
ListExecuteByDateRange(p, input, answer) ==
  /\ pc[p] \in Finished
  /\ IF ~Has(input, "startDate") \/ ~Has(input, "endDate")
     THEN Throw(p, "dateRange", input @@ [answer |-> answer],
                "Both start date and end date are required")
     ELSE IF input.startDate >= input.endDate
     THEN Throw(p, "dateRange", input @@ [answer |-> answer],
                "Start date must be before end date")
     ELSE IF input.startDate > Today
     THEN Throw(p, "dateRange", input @@ [answer |-> answer],
                "Start date cannot be in the future")
     ELSE Delegate(p, "dateRange", input @@ [answer |-> answer],
                   Call("getByDateRange", <<input.startDate, input.endDate>>),
                   HttpGetByDateRange(answer))

\* ListUsersUseCase.executeGetActiveCount()
ListExecuteGetActiveCount(p, answer) ==
  /\ pc[p] \in Finished
  /\ Delegate(p, "activeCount", [answer |-> answer],
              Call("getActiveUsersCount", <<>>), HttpGetActiveUsersCount(answer))

\* a client of the repository calls one of its operations
HttpCall(p, op, answer) ==
  /\ pc[p] \in Finished
  /\ Delegate(p, "repository", [op |-> op, answer |-> answer],
              Call(op, <<>>), UserRepository(op, answer))

\* ------------------------------------------- the transport and its answers
\* a user as the API sends it: dates are text
WireUser(email) ==
  [id |-> <<"1">>, email |-> email, firstName |-> <<"J", "o", "h", "n">>,
   lastName |-> <<"D", "o", "e">>, createdAt |-> <<"1", "9", "3", "7", "2">>,
   updatedAt |-> <<"1", "9", "4", "0", "8">>, isActive |-> TRUE]

\* a record the User constructor accepts and one it rejects
WireUsers == { WireUser(JohnEmail), WireUser(<<"a", "b">>) }

\* the error objects the transport fails with: HttpErrorResponse has a
\* status, a url, a message and the body the server sent; an error that is
\* not of the transport has none of these but the message
HttpErrors ==
  { s @@ u @@ t @@ b :
      s \in {<<>>} \cup { [status |-> n] : n \in {0, 400, 401, 404, 409, 500} },
      u \in { <<>>, [url |-> "/api/users"] },
      t \in { <<>>, [message |-> "Http failure response"] },
      b \in { <<>>,
              [error |-> [email |-> "a@b.c"]],
              [error |-> [errors |-> <<"email is taken">>]],
              [error |-> [message |-> "Bad input"]],
              [error |-> [errors |-> <<"name is short">>, message |-> "Bad input"]] } }

\* the bodies the transport answers a request of the operation with
Replies(op) ==
  CASE op \in {"getById", "getByEmail"} -> WireUsers \cup {Null}
    [] op \in {"create", "update"} -> WireUsers
    [] op = "getAll" ->
         { [users |-> l, total |-> Len(l), page |-> 1, limit |-> 10] :
             l \in { <<>>, <<WireUser(JohnEmail)>>,
                     <<WireUser(JohnEmail), WireUser(<<"a", "b">>)>> } }
    [] op \in {"getByDateRange", "search"} ->
         { <<>>, <<WireUser(JohnEmail)>>,
           <<WireUser(JohnEmail), WireUser(<<"a", "b">>)>> }
    [] op \in {"delete", "permanentDelete"} -> { [success |-> b] : b \in BOOLEAN }
    [] op = "existsByEmail" -> { [exists |-> b] : b \in BOOLEAN }
    [] op = "getActiveUsersCount" -> { [count |-> n] : n \in {0, 4} }

\* everything the transport can answer a request of the operation with
Answers(op) ==
  { Next_(d) : d \in Replies(op) } \cup { ThrowError(e) : e \in HttpErrors }

\* the answers the requests of the use cases are given: every body, a not
\* found answer, a server failure and a lost connection
SomeAnswers(op) ==
  { Next_(d) : d \in Replies(op) }
  \cup { ThrowError(e) :
           e \in { [status |-> 404, url |-> "/api/users"],
                   [status |-> 500, message |-> "Http failure response"],
                   [status |-> 0] } }

\* --------------------------------------------- inputs of Get and List
\* ids given to GetUserUseCase.execute
GetIdInputs == IdInputs \cup { <<" ">> }

\* e-mails given to GetUserUseCase.executeByEmail
GetEmailInputs == { <<>>, <<" ">>, <<"a", "b">>, NewEmail }

\* numbers given as page and as limit: around the lower end of the range and
\* around the upper end of the limit's range
PageInputs == (0 - MaxDelta)..(1 + MaxDelta)
LimitInputs ==
  ((0 - MaxDelta)..(1 + MaxDelta)) \cup ((MaxLimit - MaxDelta)..(MaxLimit + MaxDelta))

\* search strings given to the List use case
QueryInputs == Strings({"a", " "}, MaxQueryLen)

\* the options given to ListUsersUseCase.execute: left out, or an object
\* with any of its four keys
ListOptions ==
  {Null} \cup
  { pg @@ lm @@ s @@ a :
      pg \in {<<>>} \cup { [page |-> n] : n \in PageInputs },
      lm \in {<<>>} \cup { [limit |-> n] : n \in LimitInputs },
      s \in {<<>>} \cup { [search |-> q] : q \in QueryInputs },
      a \in {<<>>} \cup { [isActive |-> b] : b \in BOOLEAN } }

\* the arguments given to ListUsersUseCase.executeSearch
SearchInputs ==
  { q @@ lm :
      q \in {<<>>} \cup { [query |-> t] : t \in QueryInputs },
      lm \in {<<>>} \cup { [limit |-> n] : n \in LimitInputs } }

\* dates given to ListUsersUseCase.executeByDateRange: around the current time
DateInputs == (now - MaxDelta)..(now + MaxDelta + 1)

\* the arguments given to ListUsersUseCase.executeByDateRange
DateRangeInputs ==
  { s @@ e :
      s \in {<<>>} \cup { [startDate |-> d] : d \in DateInputs },
      e \in {<<>>} \cup { [endDate |-> d] : d \in DateInputs } }

\* ------------------------------------------- specification: a single call
\* payloads given to CreateUserUseCase.execute, one with a name of one letter
CallCreateInputs ==
  CreateInputs \cup
  { [email |-> NewEmail, firstName |-> <<"J">>, lastName |-> <<"L", "i">>] }

\* payloads given to UpdateUserUseCase.execute, one with a name of one letter
CallUpdateInputs == UpdateInputs \cup { [firstName |-> <<"A">>] }

\* one caller makes one call: of a use case (Create, Update and Delete run
\* against the in-memory repository, Get and List against the HTTP-backed
\* UserRepository) or of UserRepository itself; the transport answers the
\* request with any body or any error
NextCall ==
  \/ \E p \in {1} : \E userData \in CallCreateInputs :
        pc[p] = "idle" /\ CreateExecute(p, userData)
  \/ \E p \in {1} : CreateExists(p)
  \/ \E p \in {1} : CreateSettle(p)
  \/ \E p \in {1} : \E id \in IdInputs : \E userData \in CallUpdateInputs :
        pc[p] = "idle" /\ UpdateExecute(p, id, userData)
  \/ \E p \in {1} : UpdateFetched(p)
  \/ \E p \in {1} : UpdateSettle(p)
  \/ \E p \in {1} : \E id \in IdInputs :
        pc[p] = "idle" /\ SoftDeleteExecute(p, id)
  \/ \E p \in {1} : SoftDeleteFetched(p)
  \/ \E p \in {1} : \E id \in IdInputs :
        pc[p] = "idle" /\ HardDeleteExecute(p, id)
  \/ \E p \in {1} : HardDeleteFetched(p)
  \/ \E p \in {1} : DeleteSettle(p)
  \/ \E p \in {1} : \E op \in HttpOps : \E answer \in Answers(op) :
        pc[p] = "idle" /\ HttpCall(p, op, answer)
  \/ \E p \in {1} : \E id \in GetIdInputs : \E answer \in SomeAnswers("getById") :
        pc[p] = "idle" /\ GetExecute(p, id, answer)
  \/ \E p \in {1} : \E email \in GetEmailInputs :
        \E answer \in SomeAnswers("getByEmail") :
          pc[p] = "idle" /\ GetExecuteByEmail(p, email, answer)
  \/ \E p \in {1} : \E options \in ListOptions :
        \E answer \in SomeAnswers("getAll") :
          pc[p] = "idle" /\ ListExecute(p, options, answer)
  \/ \E p \in {1} : \E input \in SearchInputs :
        \E answer \in SomeAnswers("search") :
          pc[p] = "idle" /\ ListExecuteSearch(p, input, answer)
  \/ \E p \in {1} : \E input \in DateRangeInputs :
        \E answer \in SomeAnswers("getByDateRange") :
          pc[p] = "idle" /\ ListExecuteByDateRange(p, input, answer)
  \/ \E p \in {1} : \E answer \in SomeAnswers("getActiveUsersCount") :
        pc[p] = "idle" /\ ListExecuteGetActiveCount(p, answer)
  \/ \E p \in {1} : Return(p)

SpecCall == Init /\ [][NextCall]_vars

\* the id is empty
EmptyId(id) == Len(Trim(id)) = 0

\* the e-mail is missing or malformed
BadEmail(obj) == Falsy(obj, "email") \/ ~EmailRegexTest(obj.email)

\* the name is given and shorter than 2 characters after trimming
ShortName(obj, key) == Has(obj, key) /\ Len(Trim(obj[key])) < 2

\* the argument-shape failures a call of a use case finds in its arguments
\* without the names of an update payload
ShapeRejectedAtCall(useCase, a) ==
  CASE useCase = "create" ->
         \/ BadEmail(a)
         \/ ~Has(a, "firstName") \/ ShortName(a, "firstName")
         \/ ~Has(a, "lastName") \/ ShortName(a, "lastName")
    [] useCase = "update" -> EmptyId(a.id) \/ DOMAIN a.userData = {}
    [] useCase \in {"softDelete", "hardDelete", "get"} -> EmptyId(a.id)
    [] useCase = "getByEmail" -> BadEmail(a)
    [] useCase = "search" -> ~Has(a, "query") \/ Len(Trim(a.query)) < 2
    [] useCase = "dateRange" ->
         \/ ~Has(a, "startDate") \/ ~Has(a, "endDate")
         \/ a.startDate >= a.endDate
    [] OTHER -> FALSE

\* an update whose id and payload pass the checks of the call and whose
\* payload has a name that is too short
ShortNameUpdate(useCase, a) ==
  /\ useCase = "update"
  /\ ~ShapeRejectedAtCall(useCase, a)
  /\ (ShortName(a.userData, "firstName") \/ ShortName(a.userData, "lastName"))

\* C11 (as the specification states it): in every use case an argument-shape
\* validation failure (empty id, empty update payload, malformed e-mail,
\* too-short name, invalid date ordering) is raised synchronously by the call,
\* before any repository operation, and never delivered asynchronously after
\* a repository read.
C11_ValidationIsSynchronous ==
  \A p \in Procs :
    (ShapeRejectedAtCall(uc[p], arg[p]) \/ ShortNameUpdate(uc[p], arg[p])) =>
       /\ pc[p] = "thrown"
       /\ calls[p] = <<>>

\* C11 (amended): every argument-shape failure but one is raised
\* synchronously by the call, before any repository operation; the names of
\* an update payload are validated in the callback of the getById read, so a
\* too-short name there is never thrown by the call: the call reads getById
\* first and the failure it delivers comes after that read.
C11_SynchronousExceptUpdateNames ==
  \A p \in Procs :
    /\ ShapeRejectedAtCall(uc[p], arg[p]) =>
         /\ pc[p] = "thrown"
         /\ outcome[p].kind = "error"
         /\ calls[p] = <<>>
    /\ ShortNameUpdate(uc[p], arg[p]) =>
         /\ pc[p] \in {"awaitCheck", "failed"}
         /\ calls[p] = <<Call("getById", <<arg[p].id>>)>>
         /\ pc[p] = "failed" => /\ Delivered(p)
                                /\ outcome[p].kind = "error"

\* an update of an active user with a one-letter name has failed on the name
\* after its getById read
C11_Witness ==
  \E p \in Procs :
    /\ ShortNameUpdate(uc[p], arg[p])
    /\ pc[p] = "failed"
    /\ Delivered(p) /\ fetched[p].value # Null /\ fetched[p].value.isActive
    /\ outcome[p].value.message = "First name must be at least 2 characters long"
    /\ calls[p] = <<Call("getById", <<arg[p].id>>)>>

\* the class names of the DomainError kinds
DomainErrorNames ==
  {"UserNotFoundError", "UserAlreadyExistsError", "InvalidUserDataError",
   "UserInactiveError", "ValidationError", "BusinessRuleViolationError",
   "RepositoryError", "NetworkError"}

\* the error is a DomainError: of one of the kinds, with a code and a
\* userMessage
IsDomainError(e) ==
  /\ e.name \in DomainErrorNames
  /\ Has(e, "code")
  /\ Has(e, "userMessage")

\* C12: every failure a use case reports asynchronously (not found, inactive,
\* already inactive, e-mail already exists, hard delete of an active user,
\* repository failure) is a DomainError of one of the eight kinds, carrying a
\* code and a userMessage.
C12_AsyncFailuresAreDomainErrors ==
  \A p \in Procs :
    pc[p] = "failed" => IsDomainError(outcome[p].value)

\* the transport failed the request of a direct call of the operation, and
\* not with the 404 that getById and getByEmail answer with an absent result
TransportFailed(p, ops) ==
  /\ uc[p] = "repository"
  /\ arg[p].op \in ops
  /\ arg[p].answer.kind = "error"
  /\ ~(arg[p].op \in {"getById", "getByEmail"} /\ StatusIs(arg[p].answer.value, 404))

\* the notification the call of p delivers or will deliver
Delivery(p) == IF pc[p] = "awaitReturn" THEN pending[p] ELSE outcome[p]

\* C13: for every operation of the HTTP-backed UserRepository and every
\* transport failure, the failure delivered to the caller is the DomainError
\* DomainErrorFactory.fromHttpError gives for it (404 on getById and
\* getByEmail excepted).
C13_FailuresAreFactoryErrors ==
  \A p \in Procs :
    TransportFailed(p, HttpOps) =>
       /\ Delivery(p).kind = "error"
       /\ IsDomainError(Delivery(p).value)
       /\ Delivery(p).value = fromHttpError(arg[p].answer.value)

\* the kind, code and userMessage the fixed mapping gives a status
KindOfStatus(httpError) ==
  IF StatusIs(httpError, 404)
  THEN <<"UserNotFoundError", "USER_NOT_FOUND", "User not found">>
  ELSE IF StatusIs(httpError, 409)
  THEN <<"UserAlreadyExistsError", "USER_ALREADY_EXISTS",
         "A user with this email already exists">>
  ELSE IF StatusIs(httpError, 400)
  THEN <<"InvalidUserDataError", "INVALID_USER_DATA", "Invalid user data provided">>
  ELSE IF StatusIs(httpError, 0)
  THEN <<"NetworkError", "NETWORK_ERROR", "Network connection error">>
  ELSE <<"RepositoryError", "REPOSITORY_ERROR", "Data access error occurred">>

\* C14: DomainErrorFactory.fromHttpError maps the transport status by a fixed
\* table: 404 to UserNotFound, 409 to UserAlreadyExists, 400 to
\* InvalidUserData whose details are the field errors the server sent, 0 to
\* NetworkError and everything else to RepositoryError, each with the code and
\* userMessage of its kind. Checked on the errors getAll and getById deliver,
\* which are the factory's results.
C14_FactoryMapping ==
  \A p \in Procs :
    TransportFailed(p, {"getAll", "getById"}) =>
       LET httpError == arg[p].answer.value
           e == Delivery(p).value
       IN /\ Delivery(p).kind = "error"
          /\ <<e.name, e.code, e.userMessage>> = KindOfStatus(httpError)
          /\ (StatusIs(httpError, 400) /\ Has(httpError, "error")
              /\ Has(httpError.error, "errors")) =>
                e.details = httpError.error.errors

\* getAll has failed on a 400 answer and delivered the server's field errors
C14_Witness ==
  \E p \in Procs :
    /\ TransportFailed(p, {"getAll"})
    /\ pc[p] = "failed"
    /\ StatusIs(arg[p].answer.value, 400)
    /\ Has(arg[p].answer.value, "error")
    /\ outcome[p].value.name = "InvalidUserDataError"
    /\ outcome[p].value.details = <<"email is taken">>

\* C15: UserRepository.getById and getByEmail turn a 404 answer of the
\* transport into the absent result (null), delivered as a value; any other
\* transport failure is delivered as an error.
C15_NotFoundIsAbsent ==
  \A p \in Procs :
    (/\ uc[p] = "repository"
     /\ arg[p].op \in {"getById", "getByEmail"}
     /\ arg[p].answer.kind = "error") =>
       IF StatusIs(arg[p].answer.value, 404)
       THEN /\ Delivery(p).kind = "next"
            /\ Delivery(p).value = Null
            /\ pc[p] # "failed"
       ELSE /\ Delivery(p).kind = "error"
            /\ pc[p] # "done"

\* getByEmail has delivered null for a 404 answer
C15_Witness ==
  \E p \in Procs :
    /\ uc[p] = "repository" /\ arg[p].op = "getByEmail"
    /\ arg[p].answer.kind = "error" /\ StatusIs(arg[p].answer.value, 404)
    /\ pc[p] = "done"
    /\ outcome[p] = Next_(Null)

\* C16: GetUserUseCase.execute with a non-empty id and executeByEmail with a
\* non-empty well-formed e-mail make exactly one repository call (getById,
\* getByEmail) and deliver its result unchanged; an absent result is
\* delivered as an absent value, never as an error.
C16_GetPassesThrough ==
  \A p \in Procs :
    /\ (uc[p] = "get" /\ ~EmptyId(arg[p].id)) =>
         /\ pc[p] # "thrown"
         /\ calls[p] = <<Call("getById", <<arg[p].id>>)>>
         /\ Delivery(p).kind = HttpGetById(arg[p].answer).kind
         /\ Delivery(p).value = HttpGetById(arg[p].answer).value
    /\ (uc[p] = "getByEmail" /\ ~BadEmail(arg[p])) =>
         /\ pc[p] # "thrown"
         /\ calls[p] = <<Call("getByEmail", <<arg[p].email>>)>>
         /\ Delivery(p).kind = HttpGetByEmail(arg[p].answer).kind
         /\ Delivery(p).value = HttpGetByEmail(arg[p].answer).value

\* execute has delivered the absent result of the repository as a value
C16_Witness ==
  \E p \in Procs :
    /\ uc[p] = "get" /\ ~EmptyId(arg[p].id)
    /\ HttpGetById(arg[p].answer) = Next_(Null)
    /\ pc[p] = "done"
    /\ outcome[p] = Next_(Null)
    /\ Len(calls[p]) = 1

\* the options execute delegated to repository.getAll
Delegated(p) == calls[p][1].args[1]

\* a number moved to the nearest bound of the range lo..hi
Clamp(n, lo, hi) == IF n < lo THEN lo ELSE IF n > hi THEN hi ELSE n

\* isActive is handed on as it was given
SameIsActive(options, delegated) ==
  /\ Has(delegated, "isActive") <=> Has(options, "isActive")
  /\ Has(options, "isActive") => delegated.isActive = options.isActive

\* C17 (as the specification states it): for every page and limit given to
\* ListUsersUseCase.execute the delegated options have page >= 1 and
\* 1 <= limit <= 100: an absent page becomes 1, an absent limit 10, a value in
\* range is unchanged and a value out of range is moved to the nearest bound;
\* isActive is unchanged.
C17_ClampedToNearestBound ==
  \A p \in Procs :
    (uc[p] = "list" /\ arg[p].options # Null) =>
       LET options == arg[p].options IN
       /\ calls[p][1].op = "getAll"
       /\ Delegated(p).page =
            IF Has(options, "page")
            THEN IF options.page < 1 THEN 1 ELSE options.page
            ELSE 1
       /\ Delegated(p).limit =
            IF Has(options, "limit") THEN Clamp(options.limit, 1, 100) ELSE 10
       /\ SameIsActive(options, Delegated(p))

\* C17 (amended): the delegated options have page >= 1 and 1 <= limit <= 100:
\* a page that is absent, zero or negative becomes 1, a limit that is absent,
\* zero or negative becomes the default 10, a limit above 100 becomes 100 and
\* a value in range is unchanged; isActive is unchanged; options left out
\* give page 1 and limit 10.
C17_NormalizedPageAndLimit ==
  \A p \in Procs :
    uc[p] = "list" =>
       /\ Len(calls[p]) = 1 /\ calls[p][1].op = "getAll"
       /\ Delegated(p).page >= 1
       /\ Delegated(p).limit >= 1 /\ Delegated(p).limit <= 100
       /\ IF arg[p].options = Null
          THEN Delegated(p) = [page |-> 1, limit |-> 10]
          ELSE LET options == arg[p].options IN
               /\ Delegated(p).page =
                    IF Has(options, "page") /\ options.page >= 1
                    THEN options.page ELSE 1
               /\ Delegated(p).limit =
                    IF ~Has(options, "limit") \/ options.limit < 1 THEN 10
                    ELSE IF options.limit > 100 THEN 100
                    ELSE options.limit
               /\ SameIsActive(options, Delegated(p))

\* execute was given a negative limit, a page of 0 and isActive, and
\* delegated limit 10 and page 1
C17_Witness ==
  \E p \in Procs :
    /\ uc[p] = "list" /\ arg[p].options # Null
    /\ Has(arg[p].options, "limit") /\ arg[p].options.limit < 0
    /\ Has(arg[p].options, "page") /\ arg[p].options.page = 0
    /\ Has(arg[p].options, "isActive")
    /\ Delegated(p).limit = 10
    /\ Delegated(p).page = 1

\* C18: a search string given to ListUsersUseCase.execute whose trimmed length
\* is below 2 (the empty string and white space included) does not make the
\* call fail and is not delegated: the options given to repository.getAll
\* have no search term; every other search string is delegated trimmed.
C18_ShortSearchDropped ==
  \A p \in Procs :
    (uc[p] = "list" /\ arg[p].options # Null /\ Has(arg[p].options, "search")) =>
       /\ pc[p] # "thrown"
       /\ calls[p][1].op = "getAll"
       /\ IF Len(Trim(arg[p].options.search)) < 2
          THEN ~Has(Delegated(p), "search")
          ELSE /\ Has(Delegated(p), "search")
               /\ Delegated(p).search = Trim(arg[p].options.search)

\* the arguments of the one call of repository.search
SearchArgs(p) == calls[p][1].args

\* the query is missing or shorter than 2 characters after trimming
ShortQuery(a) == ~Has(a, "query") \/ Len(Trim(a.query)) < 2

\* C19 (as the specification states it): executeSearch throws a validation
\* failure and calls nothing when the trimmed query is shorter than 2
\* characters; otherwise it calls repository.search once with the trimmed
\* query and a limit of 20 when none was given, else the given limit moved
\* into 1..100.
C19_SearchLimitClamped ==
  \A p \in Procs :
    uc[p] = "search" =>
       IF ShortQuery(arg[p])
       THEN pc[p] = "thrown" /\ calls[p] = <<>>
       ELSE /\ pc[p] # "thrown"
            /\ Len(calls[p]) = 1 /\ calls[p][1].op = "search"
            /\ SearchArgs(p)[1] = Trim(arg[p].query)
            /\ SearchArgs(p)[2] =
                 IF Has(arg[p], "limit") THEN Clamp(arg[p].limit, 1, 100) ELSE 20

\* C19 (amended): as above, but the limit is 20 when none was given or the
\* given limit is zero or negative, and otherwise the smaller of the given
\* limit and 100.
C19_SearchLimitDefaulted ==
  \A p \in Procs :
    uc[p] = "search" =>
       IF ShortQuery(arg[p])
       THEN /\ pc[p] = "thrown"
            /\ outcome[p].kind = "error"
            /\ calls[p] = <<>>
       ELSE /\ pc[p] # "thrown"
            /\ Len(calls[p]) = 1 /\ calls[p][1].op = "search"
            /\ SearchArgs(p)[1] = Trim(arg[p].query)
            /\ SearchArgs(p)[2] =
                 IF ~Has(arg[p], "limit") \/ arg[p].limit <= 0 THEN 20
                 ELSE IF arg[p].limit > 100 THEN 100
                 ELSE arg[p].limit

\* executeSearch delegated a padded query trimmed, with limit 20 for a
\* negative limit; and with limit 100 for a limit above 100
C19_Witness ==
  \E p \in Procs :
    /\ uc[p] = "search" /\ ~ShortQuery(arg[p])
    /\ Trim(arg[p].query) # arg[p].query
    /\ Has(arg[p], "limit")
    /\ \/ arg[p].limit < 0 /\ SearchArgs(p)[2] = 20
       \/ arg[p].limit > 100 /\ SearchArgs(p)[2] = 100

\* C20: executeByDateRange throws a validation failure and never calls
\* repository.getByDateRange when a date is missing, start >= end, or start
\* is later than the current time; in every other case it calls it exactly
\* once with the same two dates.
C20_DateRangeValidated ==
  \A p \in Procs :
    uc[p] = "dateRange" =>
       IF \/ ~Has(arg[p], "startDate") \/ ~Has(arg[p], "endDate")
          \/ arg[p].startDate >= arg[p].endDate
          \/ arg[p].startDate > now
       THEN /\ pc[p] = "thrown"
            /\ outcome[p].kind = "error"
            /\ calls[p] = <<>>
       ELSE /\ pc[p] # "thrown"
            /\ calls[p] = <<Call("getByDateRange",
                                 <<arg[p].startDate, arg[p].endDate>>)>>

\* executeByDateRange has thrown on a start in the future that is before the
\* end
C20_Witness ==
  \E p \in Procs :
    /\ uc[p] = "dateRange"
    /\ Has(arg[p], "startDate") /\ Has(arg[p], "endDate")
    /\ arg[p].startDate < arg[p].endDate
    /\ arg[p].startDate > now
    /\ pc[p] = "thrown"
    /\ outcome[p].value.message = "Start date cannot be in the future"

\* ------------------------------------------------------ update frame (C21)
\* C21: a successful UpdateUserUseCase.execute(id, partial) hands the partial
\* payload to repository.update as it was given, and the update changes the
\* stored user of that id only: its id, email, createdAt and isActive and
\* every name left out of the payload stay as they were, a given name is
\* stored, and every other stored user is unchanged.
C21_UpdateFrame ==
  [][\A p \in Procs :
       (/\ uc[p] = "update" /\ pc[p] = "awaitCheck" /\ pc'[p] = "awaitMut"
        /\ pending'[p].kind = "next") =>
          LET k == findIndexById(users, arg[p].id)
              payload == arg[p].userData
          IN /\ calls'[p] = Append(calls[p], Call("update", <<arg[p].id, payload>>))
             /\ k # 0
             /\ Len(users') = Len(users)
             /\ \A i \in 1..Len(users) : i # k => users'[i] = users[i]
             /\ users'[k].id = users[k].id
             /\ users'[k].email = users[k].email
             /\ users'[k].createdAt = users[k].createdAt
             /\ users'[k].isActive = users[k].isActive
             /\ \A key \in {"firstName", "lastName"} :
                  users'[k][key] = IF Has(payload, key) THEN payload[key]
                                   ELSE users[k][key]
             /\ pending'[p].value = users'[k]]_vars

\* an update that gave the first name only has succeeded: the stored user
\* has the new first name and the last name of the seed data
C21_Witness ==
  \E p \in Procs :
    /\ uc[p] = "update" /\ pc[p] = "done"
    /\ DOMAIN arg[p].userData = {"firstName"}
    /\ outcome[p].value.firstName = arg[p].userData.firstName
    /\ getById(users, arg[p].id) # Null
    /\ getById(users, arg[p].id).firstName = arg[p].userData.firstName
    /\ getById(users, arg[p].id).lastName = <<"D", "o", "e">>

\* ------------------------------------------------- the User entity alone
\* an activate that stamps the copy as newly created
activateAsNew(u, date) ==
  User(u.id, u.email, u.firstName, u.lastName, date, date, TRUE)

\* User.activate; date is new Date()
activate(u, date) ==
  User(u.id, u.email, u.firstName, u.lastName, u.createdAt, date, TRUE)

\* get fullName
fullName(u) == u.firstName \o <<" ">> \o u.lastName

\* a serialisation of a date that keeps whole seconds only
toISOStringSeconds(date) == toString(1000 * (date \div 1000))

\* Date.prototype.toISOString: the text of a date, here the decimal text of
\* its milliseconds; DateOf reads it back
toISOString(date) == toString(date)

\* User.toJSON
toJSON(u) ==
  [id |-> u.id, email |-> u.email, firstName |-> u.firstName,
   lastName |-> u.lastName, fullName |-> fullName(u),
   createdAt |-> toISOString(u.createdAt),
   updatedAt |-> toISOString(u.updatedAt), isActive |-> u.isActive]

\* User.fromJSON: the User it constructs when the constructor does not throw
fromJSON(data) ==
  User(data.id, data.email, data.firstName, data.lastName,
       DateOf(data.createdAt), DateOf(data.updatedAt), data.isActive)

\* new User(...) with the arguments of data; isActive defaults to true
EntityNew(p, data) ==
  /\ pc[p] = "idle" /\ users = <<>>
  /\ IF UserCtorError(data.email, data.firstName, data.lastName) # ""
     THEN Throw(p, "new", data,
                UserCtorError(data.email, data.firstName, data.lastName))
     ELSE LET u == User(data.id, data.email, data.firstName, data.lastName,
                        data.createdAt, data.updatedAt,
                        IF Has(data, "isActive") THEN data.isActive ELSE TRUE)
          IN /\ users' = <<u>>
             /\ pc' = [pc EXCEPT ![p] = "done"]
             /\ uc' = [uc EXCEPT ![p] = "new"]
             /\ arg' = [arg EXCEPT ![p] = data]
             /\ outcome' = [outcome EXCEPT ![p] = Next_(u)]
             /\ UNCHANGED <<services, nextId, now, pending, fetched, calls>>

\* a method of the constructed User that returns a new User: the constructor
\* it calls throws err, or result comes into existence beside the receiver
Derive(p, op, a, err, result) ==
  /\ pc[p] = "done" /\ uc[p] = "new" /\ Len(users) = 1
  /\ uc' = [uc EXCEPT ![p] = op]
  /\ arg' = [arg EXCEPT ![p] = a]
  /\ IF err # ""
     THEN /\ pc' = [pc EXCEPT ![p] = "thrown"]
          /\ outcome' = [outcome EXCEPT ![p] = Fail_(err)]
          /\ users' = users
     ELSE /\ pc' = [pc EXCEPT ![p] = "done"]
          /\ outcome' = [outcome EXCEPT ![p] = Next_(result)]
          /\ users' = Append(users, result)
  /\ UNCHANGED <<services, nextId, now, pending, fetched, calls>>

\* user.updateInfo(firstName, lastName)
EntityUpdateInfo(p, firstName, lastName) ==
  Derive(p, "updateInfo", [firstName |-> firstName, lastName |-> lastName],
         UserCtorError(users[1].email, firstName, lastName),
         updateInfo(users[1], firstName, lastName, Today))

\* user.deactivate()
EntityDeactivate(p) ==
  Derive(p, "deactivate", <<>>,
         UserCtorError(users[1].email, users[1].firstName, users[1].lastName),
         deactivate(users[1], Today))

\* user.activate()
EntityActivate(p) ==
  Derive(p, "activate", <<>>,
         UserCtorError(users[1].email, users[1].firstName, users[1].lastName),
         activate(users[1], Today))

\* User.fromJSON(user.toJSON())
EntityFromJSON(p) ==
  Derive(p, "fromJSON", toJSON(users[1]),
         UserCtorError(toJSON(users[1]).email, toJSON(users[1]).firstName,
                       toJSON(users[1]).lastName),
         fromJSON(toJSON(users[1])))

\* the clock advances by a millisecond
EntityTick ==
  /\ now < 20000 + MaxTicks
  /\ now' = now + 1
  /\ UNCHANGED <<services, users, nextId, pc, uc, arg, pending, fetched, outcome, calls>>

\* names given to the constructor and to updateInfo
EntityNames == { <<"L", "i">>, <<"a">>, <<"a", "1">>, <<" ", "a", " ">> }

\* the arguments given to new User(...)
EntityInputs ==
  { [id |-> <<"1">>, email |-> e, firstName |-> f, lastName |-> l,
     createdAt |-> c, updatedAt |-> 1001] @@ a :
      e \in { NewEmail, <<"a", "b">>, <<"a", "@", "b">> },
      f \in Strings(NameChars, MaxNameLen),
      l \in EntityNames,
      c \in { 0, 86399999 },
      a \in {<<>>} \cup { [isActive |-> b] : b \in BOOLEAN } }

\* no entity exists yet
InitEntity ==
  /\ users = <<>>
  /\ nextId = FirstNextId
  /\ now = 20000
  /\ pc = [p \in Procs |-> "idle"]
  /\ uc = [p \in Procs |-> "none"]
  /\ arg = [p \in Procs |-> <<>>]
  /\ pending = [p \in Procs |-> NoPending]
  /\ fetched = [p \in Procs |-> NoPending]
  /\ outcome = [p \in Procs |-> NoPending]
  /\ calls = [p \in Procs |-> <<>>]
  /\ InitServices

\* a User is constructed and one of its methods that return a User is called
NextEntity ==
  \/ \E p \in {1} : \E data \in EntityInputs : EntityNew(p, data)
  \/ \E p \in {1} : \E firstName \in EntityNames : \E lastName \in EntityNames :
        EntityUpdateInfo(p, firstName, lastName)
  \/ \E p \in {1} : EntityDeactivate(p)
  \/ \E p \in {1} : EntityActivate(p)
  \/ \E p \in {1} : EntityFromJSON(p)
  \/ EntityTick

SpecEntity == InitEntity /\ [][NextEntity]_vars

\* the name has a trimmed length of at least 2 and only letters and spaces
LettersAndSpaces(name) ==
  /\ Len(Trim(name)) >= 2
  /\ \A i \in 1..Len(name) : name[i] \in Letters \cup {" "}

\* the fields the claim lets a User have
ValidFields(email, firstName, lastName) ==
  /\ EmailRegexTest(email)
  /\ LettersAndSpaces(firstName)
  /\ LettersAndSpaces(lastName)

\* C22: constructing a User (directly, through updateInfo, deactivate or
\* activate, or through fromJSON) succeeds exactly when the e-mail matches the
\* e-mail format and both names have a trimmed length of at least 2 and
\* consist of letters and spaces only; otherwise construction fails before
\* the object exists, so every User in existence has valid fields.
C22_ConstructionValidates ==
  /\ \A i \in 1..Len(users) :
       ValidFields(users[i].email, users[i].firstName, users[i].lastName)
  /\ \A p \in Procs :
       /\ uc[p] = "new" =>
            (pc[p] = "done" <=>
               ValidFields(arg[p].email, arg[p].firstName, arg[p].lastName))
       /\ uc[p] = "updateInfo" =>
            (pc[p] = "done" <=>
               ValidFields(users[1].email, arg[p].firstName, arg[p].lastName))

\* C23: the methods of User that return a copy never change the receiver:
\* updateInfo returns a new User with the id, email, createdAt and isActive of
\* the receiver, the given names and updatedAt set to the current time;
\* deactivate and activate return a new User that differs from the receiver
\* only in isActive (false, true) and updatedAt.
C23_DerivedCopies ==
  [][\A p \in Procs :
       (/\ uc[p] = "new"
        /\ uc'[p] \in {"updateInfo", "deactivate", "activate"}
        /\ pc'[p] = "done") =>
          LET u == users[1]
              r == users'[2]
          IN /\ Len(users') = 2
             /\ users'[1] = u
             /\ outcome'[p] = Next_(r)
             /\ r.id = u.id /\ r.email = u.email /\ r.createdAt = u.createdAt
             /\ r.updatedAt = now
             /\ IF uc'[p] = "updateInfo"
                THEN /\ r.firstName = arg'[p].firstName
                     /\ r.lastName = arg'[p].lastName
                     /\ r.isActive = u.isActive
                ELSE /\ r.firstName = u.firstName
                     /\ r.lastName = u.lastName
                     /\ r.isActive = (uc'[p] = "activate")]_vars

\* activate was called on an inactive User: the receiver is still inactive,
\* the copy is active and has a later updatedAt
C23_Witness ==
  \E p \in Procs :
    /\ uc[p] = "activate" /\ pc[p] = "done"
    /\ Len(users) = 2
    /\ ~users[1].isActive /\ users[2].isActive
    /\ users[2].updatedAt > users[1].updatedAt
    /\ users[2].createdAt = users[1].createdAt

\* C24: for every valid User u, User.fromJSON(u.toJSON()) succeeds and equals
\* u in id, email, firstName, lastName, isActive, createdAt and updatedAt,
\* the timestamps to the millisecond.
C24_JsonRoundTrip ==
  \A p \in Procs :
    uc[p] = "fromJSON" =>
       /\ pc[p] = "done"
       /\ Len(users) = 2
       /\ \A key \in {"id", "email", "firstName", "lastName", "isActive",
                      "createdAt", "updatedAt"} :
            users[2][key] = users[1][key]

\* a User whose timestamps are not on a whole second went through toJSON and
\* fromJSON
C24_Witness ==
  \E p \in Procs :
    /\ uc[p] = "fromJSON" /\ pc[p] = "done"
    /\ users[1].createdAt % 1000 # 0 /\ users[1].updatedAt % 1000 # 0
    /\ arg[p].createdAt = toString(users[1].createdAt)
    /\ users[2].createdAt = users[1].createdAt
    /\ users[2].updatedAt = users[1].updatedAt

\* ------------------------------------------------------ the shared services
\* the most requests in flight together, the most notifications ever shown,
\* the milliseconds between two readings of the clock and the number of
\* readings
MaxRequests == 2
MaxNotifications == 3
TickMs == 4000
MaxClock == 3

\* the last instant the clock is read at
Horizon == 20000 + MaxClock * TickMs

\* a caller finished a call of a service: what it called and what it got
Called(p, op, a, result) ==
  /\ pc' = [pc EXCEPT ![p] = "done"]
  /\ uc' = [uc EXCEPT ![p] = op]
  /\ arg' = [arg EXCEPT ![p] = a]
  /\ outcome' = [outcome EXCEPT ![p] = result]
  /\ UNCHANGED <<users, nextId, pending, fetched, calls>>

\* Map.size, Map.set(key, value), Map.delete(key)
MapSize(m) == Cardinality(DOMAIN m)
MapSet(m, key, value) ==
  [k \in DOMAIN m \cup {key} |-> IF k = key THEN value ELSE m[k]]
MapDelete(m, key) == [k \in DOMAIN m \ {key} |-> m[k]]

\* a setLoading that emits the flag it was given
setLoadingEmitsFlag(m, key, loading) ==
  [map |-> IF loading THEN MapSet(m, key, loading) ELSE MapDelete(m, key),
   emitted |-> loading]

\* LoadingService.setLoading(key, loading): the map it leaves and the value
\* it emits on loadingSubject
setLoading(m, key, loading) ==
  LET map == IF loading THEN MapSet(m, key, loading) ELSE MapDelete(m, key)
  IN [map |-> map, emitted |-> MapSize(map) > 0]

\* LoadingService.stopAllLoading()
stopAllLoading == [map |-> <<>>, emitted |-> FALSE]

\* LoadingService.isLoading
isLoading == loadingSubject

\* LoadingService.getActiveLoadingKeys(), as a set
getActiveLoadingKeys == DOMAIN loadingMap

\* a call of the LoadingService that leaves the map and the emitted value r
LoadingCall(p, op, a, r) ==
  /\ loadingMap' = r.map
  /\ loadingSubject' = r.emitted
  /\ Called(p, op, a, NoPending)
  /\ UNCHANGED <<now, activeRequests, requests, notifications,
                 notificationNextId, timers>>

\* loadingService.setLoading(key, loading)
SetLoading(p, key, loading) ==
  LoadingCall(p, "setLoading", [key |-> key, loading |-> loading],
              setLoading(loadingMap, key, loading))

\* loadingService.startLoading(key)
StartLoading(p, key) ==
  LoadingCall(p, "startLoading", [key |-> key], setLoading(loadingMap, key, TRUE))

\* loadingService.stopLoading(key)
StopLoading(p, key) ==
  LoadingCall(p, "stopLoading", [key |-> key], setLoading(loadingMap, key, FALSE))

\* loadingService.stopAllLoading()
StopAllLoading(p) == LoadingCall(p, "stopAllLoading", <<>>, stopAllLoading)

\* ------------------------------------------------ the notification service
SuccessDuration == 5000
ErrorDuration == 8000
WarningDuration == 6000
InfoDuration == 5000

\* an addNotification that numbers a notification by its place in the list
addNotificationByPlace(list, nid, type, title, message, duration, date) ==
  Append(list, [id |-> toString(Len(list) + 1), type |-> type, title |-> title,
                message |-> message, duration |-> duration, timestamp |-> date])

\* NotificationService.addNotification: the list it emits; nid is nextId
addNotification(list, nid, type, title, message, duration, date) ==
  Append(list, [id |-> toString(nid), type |-> type, title |-> title,
                message |-> message, duration |-> duration, timestamp |-> date])

\* an addNotification that sets no timer
setTimeoutNever(ts, id, duration, date) == ts

\* the setTimeout of addNotification: the callbacks that are pending after it
setTimeout(ts, id, duration, date) ==
  IF duration # 0 /\ duration > 0
  THEN ts \cup { [id |-> id, due |-> date + duration] }
  ELSE ts

\* NotificationService.removeNotification(id): the list it emits
removeNotification(list, id) ==
  LET Other(n) == n.id # id IN SelectSeq(list, Other)

\* showSuccess, showError, showWarning and showInfo: type is the type they
\* give to addNotification, input holds the arguments that were given
Show(p, op, type, input, default) ==
  LET duration == IF Has(input, "duration") THEN input.duration ELSE default
      id == toString(notificationNextId)
  IN /\ notificationNextId <= MaxNotifications
     /\ Today + duration <= Horizon
     /\ notifications' = addNotification(notifications, notificationNextId, type,
                                         input.title, input.message, duration,
                                         Today)
     /\ notificationNextId' = notificationNextId + 1
     /\ timers' = setTimeout(timers, id, duration, Today)
     /\ Called(p, op, input, NoPending)
     /\ UNCHANGED <<now, loadingMap, loadingSubject, activeRequests, requests>>

ShowSuccess(p, input) == Show(p, "showSuccess", "success", input, SuccessDuration)
ShowError(p, input) == Show(p, "showError", "error", input, ErrorDuration)
ShowWarning(p, input) == Show(p, "showWarning", "warning", input, WarningDuration)
ShowInfo(p, input) == Show(p, "showInfo", "info", input, InfoDuration)

\* notificationService.removeNotification(id)
RemoveNotification(p, id) ==
  /\ notifications' = removeNotification(notifications, id)
  /\ Called(p, "removeNotification", [id |-> id], NoPending)
  /\ UNCHANGED <<now, loadingMap, loadingSubject, activeRequests, requests,
                 notificationNextId, timers>>

\* notificationService.clearAll()
ClearAll(p) ==
  /\ notifications' = <<>>
  /\ Called(p, "clearAll", <<>>, NoPending)
  /\ UNCHANGED <<now, loadingMap, loadingSubject, activeRequests, requests,
                 notificationNextId, timers>>

\* the callback given to setTimeout runs, when its delay has passed
Timeout(t) ==
  /\ t \in timers
  /\ now >= t.due
  /\ timers' = timers \ {t}
  /\ notifications' = removeNotification(notifications, t.id)
  /\ UNCHANGED <<users, nextId, now, pc, uc, arg, pending, fetched, outcome,
                 calls, loadingMap, loadingSubject, activeRequests, requests,
                 notificationNextId>>

\* the clock is read TickMs later
Elapse ==
  /\ now + TickMs <= Horizon
  /\ now' = now + TickMs
  /\ UNCHANGED <<services, users, nextId, pc, uc, arg, pending, fetched,
                 outcome, calls>>

\* what the callers of the show methods give them
ShowInputs ==
  { [title |-> "Saved", message |-> "User saved"] @@ d :
      d \in { <<>>, [duration |-> 0], [duration |-> TickMs] } }

\* the ids removeNotification is called with
NotificationIds == { toString(i) : i \in 1..(MaxNotifications + 1) }

\* the notification service, its callers and its timers
NextNotify ==
  \/ \E p \in {1} : \E input \in ShowInputs : ShowSuccess(p, input)
  \/ \E p \in {1} : \E input \in ShowInputs : ShowError(p, input)
  \/ \E p \in {1} : \E input \in ShowInputs : ShowWarning(p, input)
  \/ \E p \in {1} : \E input \in ShowInputs : ShowInfo(p, input)
  \/ \E p \in {1} : \E id \in NotificationIds : RemoveNotification(p, id)
  \/ \E p \in {1} : ClearAll(p)
  \/ \E t \in timers : Timeout(t)
  \/ Elapse

SpecNotify == Init /\ [][NextNotify]_vars

\* the event loop runs a callback whose delay has passed, and time passes
SpecNotifyLive ==
  /\ SpecNotify
  /\ WF_vars(\E t \in timers : Timeout(t))
  /\ WF_vars(Elapse)

\* --------------------------------------------------- the HTTP interceptors
\* environment.apiUrl and UserHttpService.baseUrl
apiUrl == "http://localhost:3000/api"
baseUrl == apiUrl \o "/users"

\* the requests UserHttpService makes for the repository's operations; op is
\* the operation of UserRepository that subscribed
getUserById(id) ==
  [op |-> "getById", method |-> "GET", url |-> baseUrl \o "/" \o id]
getUserByEmail(email) ==
  [op |-> "getByEmail", method |-> "GET", url |-> baseUrl \o "/by-email"]
createUser(userData) == [op |-> "create", method |-> "POST", url |-> baseUrl]

\* LoadingInterceptor.generateRequestKey(request); date is Date.now()
generateRequestKey(request, date) ==
  request.method \o "-" \o request.url \o "-" \o ToString(date)

\* Array.prototype.join(', ')
RECURSIVE Join(_)
Join(texts) ==
  IF texts = <<>> THEN ""
  ELSE IF Len(texts) = 1 THEN texts[1]
  ELSE texts[1] \o ", " \o Join(Tail(texts))

\* ErrorInterceptor.extractErrorMessage(error); "" stands for null as well,
\* both are falsy. The body error.error is an object; a body that is a
\* string is the record [text |-> ...] of its text
extractErrorMessage(error) ==
  LET body == IF Has(error, "error") THEN error.error ELSE <<>>
  IN IF Has(body, "text") /\ body.text # "" THEN body.text
     ELSE IF Has(body, "message") /\ body.message # "" THEN body.message
     ELSE IF Has(body, "error") /\ body.error # "" THEN body.error
     ELSE IF Has(body, "errors") THEN Join(body.errors)
     ELSE OrText(error, "message", "")

\* a || b for texts
OrElseText(text, fallback) == IF text # "" THEN text ELSE fallback

\* ErrorInterceptor.handleError(error): the title and the message it gives
\* to notificationService.showError. An ErrorEvent body is a record with the
\* field event
handleError(error) ==
  IF Has(error, "error") /\ Has(error.error, "event")
  THEN [title |-> "Network Error", message |-> error.error.message]
  ELSE IF ~Has(error, "status")
  THEN [title |-> "Error undefined",
        message |-> OrElseText(extractErrorMessage(error), "HTTP Error undefined")]
  ELSE CASE error.status = 400 ->
              [title |-> "Bad Request",
               message |-> OrElseText(extractErrorMessage(error), "Invalid request data")]
         [] error.status = 401 ->
              [title |-> "Unauthorized", message |-> "Please log in to continue"]
         [] error.status = 403 ->
              [title |-> "Forbidden",
               message |-> "You do not have permission to perform this action"]
         [] error.status = 404 ->
              [title |-> "Not Found",
               message |-> "The requested resource was not found"]
         [] error.status = 409 ->
              [title |-> "Conflict",
               message |-> OrElseText(extractErrorMessage(error),
                                      "A conflict occurred with the current state")]
         [] error.status = 422 ->
              [title |-> "Validation Error",
               message |-> OrElseText(extractErrorMessage(error),
                                      "Please check your input data")]
         [] error.status = 429 ->
              [title |-> "Too Many Requests",
               message |-> "Please wait before making another request"]
         [] error.status = 500 ->
              [title |-> "Server Error",
               message |-> "An internal server error occurred"]
         [] error.status = 502 ->
              [title |-> "Bad Gateway",
               message |-> "The server is temporarily unavailable"]
         [] error.status = 503 ->
              [title |-> "Service Unavailable",
               message |-> "The service is temporarily unavailable"]
         [] error.status = 504 ->
              [title |-> "Gateway Timeout", message |-> "The request timed out"]
         [] OTHER ->
              [title |-> "Error " \o ToString(error.status),
               message |-> OrElseText(extractErrorMessage(error),
                                      "HTTP Error " \o ToString(error.status))]

\* the i-th element leaves the sequence
RemoveAt(list, i) ==
  [k \in 1..(Len(list) - 1) |-> IF k < i THEN list[k] ELSE list[k + 1]]

\* UserHttpService hands a request to HttpClient: LoadingInterceptor.intercept
\* runs, then ErrorInterceptor.intercept, and the request is in flight
HttpSend(p, request) ==
  LET requestKey == generateRequestKey(request, Today)
      started == setLoading(loadingMap, requestKey, TRUE)
  IN /\ Len(requests) < MaxRequests
     /\ activeRequests' = activeRequests + 1
     /\ loadingMap' = started.map
     /\ loadingSubject' = started.emitted
     /\ requests' = Append(requests, [request |-> request, key |-> requestKey])
     /\ Called(p, "send", request, NoPending)
     /\ UNCHANGED <<now, notifications, notificationNextId, timers>>

\* the transport answers the i-th request in flight. An error goes through
\* the catchError of ErrorInterceptor (stopAllLoading, handleError and its
\* showError), every answer through the finalize of LoadingInterceptor, and
\* the operation of UserRepository maps what arrives for its subscriber
HttpResponse(p, i, answer) ==
  LET failed == answer.kind = "error"
      caught == IF failed THEN stopAllLoading
                ELSE [map |-> loadingMap, emitted |-> loadingSubject]
      shown == IF failed THEN handleError(answer.value) ELSE <<>>
      finalized == setLoading(caught.map, requests[i].key, FALSE)
  IN /\ i \in 1..Len(requests)
     /\ failed => notificationNextId <= MaxNotifications
     /\ activeRequests' = activeRequests - 1
     /\ loadingMap' = finalized.map
     /\ loadingSubject' = finalized.emitted
     /\ requests' = RemoveAt(requests, i)
     /\ IF failed
        THEN /\ notifications' =
                  addNotification(notifications, notificationNextId, "error",
                                  shown.title, shown.message, ErrorDuration, Today)
             /\ notificationNextId' = notificationNextId + 1
             /\ timers' = setTimeout(timers, toString(notificationNextId),
                                     ErrorDuration, Today)
        ELSE UNCHANGED <<notifications, notificationNextId, timers>>
     /\ Called(p, "response", [request |-> requests[i].request, answer |-> answer],
               UserRepository(requests[i].request.op, answer))
     /\ UNCHANGED now

\* the requests the repository's operations make
HttpRequests ==
  { getUserById("1"), getUserByEmail(JohnEmail), createUser(<<>>) }

\* the keys the components give to the LoadingService
LoadingKeys == { "users", "user-1", "save", "delete" }

\* requests go through the interceptors and are answered
NextHttp ==
  \/ \E p \in {1} : \E request \in HttpRequests : HttpSend(p, request)
  \/ \E p \in {1} : \E i \in 1..Len(requests) :
        \E answer \in SomeAnswers(requests[i].request.op) :
          HttpResponse(p, i, answer)
  \/ \E t \in timers : Timeout(t)
  \/ Elapse

SpecHttp == Init /\ [][NextHttp]_vars

\* the components call the LoadingService
NextLoading ==
  \/ \E p \in {1} : \E key \in LoadingKeys : \E loading \in BOOLEAN :
        SetLoading(p, key, loading)
  \/ \E p \in {1} : \E key \in LoadingKeys : StartLoading(p, key)
  \/ \E p \in {1} : \E key \in LoadingKeys : StopLoading(p, key)
  \/ \E p \in {1} : StopAllLoading(p)

SpecLoading == Init /\ [][NextLoading]_vars

\* ------------------------------------------------------------- C25 .. C29
\* C25: after any sequence of startLoading, stopLoading, setLoading and
\* stopAllLoading calls isLoading, the value last emitted, is true exactly
\* when some key is active; a start makes its key active (once, however often
\* it is started), a stop makes it inactive, and stopAllLoading leaves no key
\* active.
C25_LoadingIffActiveKeys ==
  [][/\ isLoading = (getActiveLoadingKeys # {})
     /\ isLoading' = (getActiveLoadingKeys' # {})
     /\ MapSize(loadingMap') = Cardinality(getActiveLoadingKeys')
     /\ uc'[1] = "startLoading" =>
          getActiveLoadingKeys' = getActiveLoadingKeys \cup {arg'[1].key}
     /\ uc'[1] = "stopLoading" =>
          getActiveLoadingKeys' = getActiveLoadingKeys \ {arg'[1].key}
     /\ uc'[1] = "setLoading" =>
          getActiveLoadingKeys' =
            IF arg'[1].loading THEN getActiveLoadingKeys \cup {arg'[1].key}
            ELSE getActiveLoadingKeys \ {arg'[1].key}
     /\ uc'[1] = "stopAllLoading" => getActiveLoadingKeys' = {}]_vars

\* one of three active keys was stopped: loading goes on
C25_Witness ==
  /\ uc[1] = "stopLoading"
  /\ Cardinality(getActiveLoadingKeys) = 2
  /\ isLoading

\* the notification with the id i is in the list
Present(i) ==
  \E k \in 1..Len(notifications) : notifications[k].id = toString(i)

\* the ids of the notifications in a list
IdsOf(list) == { list[k].id : k \in 1..Len(list) }

\* a step of removeNotification(id), called directly or by a timer
Removes(id) ==
  \/ /\ uc'[1] = "removeNotification" /\ arg'[1].id = id
     /\ timers' = timers /\ notificationNextId' = notificationNextId
     /\ notifications' # notifications
  \/ /\ timers' # timers /\ notificationNextId' = notificationNextId
     /\ \E t \in timers : t.id = id /\ timers' = timers \ {t}

\* C26: every notification gets an id that no notification had before it,
\* present or removed (all ids given so far are the numbers below nextId, and
\* the new one is nextId), so that removeNotification(id), called directly
\* or by a timer that may be stale, takes at most the one notification of
\* that id out of the list and leaves the others in their order.
C26_IdsNeverReused ==
  [][/\ \A k \in 1..Len(notifications) :
          DateOf(notifications[k].id) < notificationNextId
     /\ \A t \in timers : DateOf(t.id) < notificationNextId
     /\ Cardinality(IdsOf(notifications')) = Len(notifications')
     /\ Len(notifications') > Len(notifications) =>
          /\ Len(notifications') = Len(notifications) + 1
          /\ SubSeq(notifications', 1, Len(notifications)) = notifications
          /\ notifications'[Len(notifications')].id = toString(notificationNextId)
          /\ notificationNextId' = notificationNextId + 1
     /\ \A id \in NotificationIds :
          Removes(id) =>
            \/ notifications' = notifications
            \/ \E k \in 1..Len(notifications) :
                 /\ notifications[k].id = id
                 /\ notifications' = RemoveAt(notifications, k)]_vars

\* the first of three notifications was removed and its timer is still
\* pending
C26_Witness ==
  /\ uc[1] = "removeNotification"
  /\ arg[1].id = toString(1)
  /\ IdsOf(notifications) = { toString(2), toString(3) }
  /\ \E t \in timers : t.id = toString(1)

\* C27: a notification shown with a duration above 0 is in the end removed
\* from the list without any call, and not before its duration has passed;
\* a notification shown with the duration 0 leaves the list only by a call
\* of removeNotification or clearAll.
C27_AutoRemoval ==
  /\ \A i \in 1..MaxNotifications :
       (\E k \in 1..Len(notifications) :
           notifications[k].id = toString(i) /\ notifications[k].duration > 0)
       ~> ~Present(i)
  /\ [][\A k \in 1..Len(notifications) :
          notifications[k].id \notin IdsOf(notifications') =>
            IF timers' # timers
            THEN /\ notifications[k].duration > 0
                 /\ now >= notifications[k].timestamp + notifications[k].duration
            ELSE uc'[1] \in {"removeNotification", "clearAll"}]_vars

\* a notification was shown with the default duration of an error, nothing
\* was called after it, and it is gone
C27_Witness ==
  /\ uc[1] = "showError"
  /\ ~Has(arg[1], "duration")
  /\ notificationNextId = 2
  /\ notifications = <<>>
  /\ timers = {}

\* C28: while a request that LoadingInterceptor started has not finalized
\* isLoading is true, whatever the other requests do, and isLoading is false
\* when no request is in flight.
C28_LoadingWhileInFlight == isLoading = (requests # <<>>)

\* C29: when the transport answers 404 to the request of getById or of
\* getByEmail the subscriber gets the absent value and no notification is
\* added.
C29_NotFoundIsSilent ==
  [][(/\ Len(requests') < Len(requests)
      /\ uc'[1] = "response"
      /\ arg'[1].request.op \in {"getById", "getByEmail"}
      /\ arg'[1].answer.kind = "error"
      /\ StatusIs(arg'[1].answer.value, 404))
     => /\ outcome'[1] = Next_(Null)
        /\ notifications' = notifications]_vars

\* ------------------------------------------------------------------- C30
\* C30: in the in-memory repository no two stored users share an id, a step
\* that keeps the number of stored users (update, delete) keeps every id, a
\* permanent delete takes one user out and gives no id, and a create gives
\* the new user the counter's value, which is above every id given before,
\* the ids of permanently deleted users included, because the counter never
\* goes down.
C30_IdsNeverReassigned ==
  [][/\ \A k \in 1..Len(users) : DateOf(users[k].id) < nextId
     /\ \A k \in 1..Len(users') : DateOf(users'[k].id) < nextId'
     /\ Cardinality(IdsOf(users')) = Len(users')
     /\ nextId' >= nextId
     /\ Len(users') = Len(users) =>
          /\ \A k \in 1..Len(users) : users'[k].id = users[k].id
          /\ nextId' = nextId
     /\ Len(users') > Len(users) =>
          /\ users' = Append(users, users'[Len(users')])
          /\ users'[Len(users')].id = toString(nextId)
          /\ nextId' = nextId + 1
     /\ Len(users') < Len(users) =>
          /\ \E k \in 1..Len(users) : users' = RemoveAt(users, k)
          /\ nextId' = nextId]_vars

\* the user 1 was permanently deleted and a user was created: it has the id
\* 6, not the id that became free
C30_Witness ==
  /\ toString(1) \notin IdsOf(users)
  /\ toString(FirstNextId) \in IdsOf(users)
  /\ Len(users) = Len(SeedUsers)
  /\ nextId = FirstNextId + 1
====
